---- MODULE Spec2Model ----
(***************************************************************************)
(* A model of the WEVT template cache of pyevtx-rs (src/src/wevt_cache.rs) *)
(* and of the manifest introspection objects (src/src/wevt_manifest.rs).   *)
(*                                                                         *)
(* Text (GUIDs, file names, extension lists) is a sequence of one-letter   *)
(* strings, so that case folding, brace stripping, extension extraction    *)
(* and path ordering are computed and not assumed.  Bytes are small        *)
(* naturals.  u32 and usize keep their wrap/saturation behaviour at a      *)
(* scaled width of U32Bits bits.                                           *)
(***************************************************************************)
EXTENDS Integers, Sequences, FiniteSets, TLC

(***************************************************************************)
(* Bounds of the model.                                                    *)
(***************************************************************************)
\* width, in bits, that stands for the 32 bits of a u32
U32Bits == 4
\* an ingesting call is started only while fewer blobs than this are retained
MaxResources == 2

RECURSIVE Pow2(_)
Pow2(n) == IF n = 0 THEN 1 ELSE 2 * Pow2(n - 1)

\* u32::MAX at the scaled width
U32Max == Pow2(U32Bits) - 1
\* usize::MAX of a target whose usize is as wide as u32, and of one twice as wide
UsizeMax32 == U32Max
UsizeMax64 == Pow2(2 * U32Bits) - 1

(***************************************************************************)
(* Option<T>                                                               *)
(***************************************************************************)
Some(x) == [some |-> TRUE, v |-> x]
None == [some |-> FALSE, v |-> 0]

(***************************************************************************)
(* HashMap: a function whose domain is the set of keys present.            *)
(***************************************************************************)
EmptyMap == [k \in {} |-> 0]

\* HashMap::insert: the value of an existing key is replaced
MapInsert(m, key, val) ==
    [k \in (DOMAIN m) \cup {key} |-> IF k = key THEN val ELSE m[k]]

(***************************************************************************)
(* Text.                                                                   *)
(***************************************************************************)
\* the upper-case ASCII letters that occur in the model, with their lower case
LowerOf == [A |-> "a", B |-> "b", D |-> "d", L |-> "l", E |-> "e", X |-> "x"]

\* char::to_ascii_lowercase
char_to_ascii_lowercase(c) == IF c \in DOMAIN LowerOf THEN LowerOf[c] ELSE c

\* str::to_ascii_lowercase
to_ascii_lowercase(s) == [i \in 1..Len(s) |-> char_to_ascii_lowercase(s[i])]

\* evtx_rs::wevt_templates::normalize_guid: the canonical textual form of a
\* GUID is lower case without the surrounding braces
normalize_guid(s) ==
    LET a == IF Len(s) > 0 /\ s[1] = "{" THEN SubSeq(s, 2, Len(s)) ELSE s
        b == IF Len(a) > 0 /\ a[Len(a)] = "}" THEN SubSeq(a, 1, Len(a) - 1) ELSE a
    IN  to_ascii_lowercase(b)

\* Guid::to_string of a binary GUID: upper-case hexadecimal, no braces.
\* A binary GUID is one upper-case hexadecimal letter.
Guid_to_string(g) == <<g>>

\* the binary GUIDs that occur in manifests
Guids == {"A", "B"}

(***************************************************************************)
(* Parsed manifests.  CrimManifest::parse is a collaborator: a raw blob    *)
(* either is rejected or yields the CRIM size and the providers with their *)
(* events and templates.  The universe of raw blobs is CrimBlobs; the      *)
(* parse result of a blob is a function of its bytes.                      *)
(***************************************************************************)
Ev(id, ver, off) == [identifier |-> id, version |-> ver, template_offset |-> off]
Tpl(off, sz, g) == [offset |-> off, size |-> sz, guid |-> g]
Prov(g, evs, tpls) == [guid |-> g, events |-> evs, templates |-> tpls]
Crim(bytes, ok, sz, provs) ==
    [data |-> bytes, parse_ok |-> ok, size |-> sz, providers |-> provs]

\* one provider, one template, one event without template and one mapped event
BlobA ==
    Crim(<<10, 11, 12>>, TRUE, 3,
         <<Prov("A", <<Ev(2, 0, None), Ev(1, 0, Some(0))>>, <<Tpl(0, 2, "A")>>)>>)

\* redefines event (A,1,0) and template A, adds version 1 of event 1
BlobB ==
    Crim(<<20, 21, 22>>, TRUE, 3,
         <<Prov("A", <<Ev(1, 0, Some(1)), Ev(1, 1, Some(0))>>,
                <<Tpl(0, 1, "A"), Tpl(1, 2, "B")>>)>>)

\* the same event key twice, an event whose offset matches no template, and
\* the same template GUID twice in one blob
BlobC ==
    Crim(<<30, 31, 32>>, TRUE, 3,
         <<Prov("B", <<Ev(1, 0, Some(0)), Ev(1, 0, Some(2)), Ev(2, 1, Some(3))>>,
                <<Tpl(0, 1, "A"), Tpl(2, 1, "B"), Tpl(1, 2, "A")>>)>>)

\* the second template of the first provider exceeds the blob; one event of
\* that provider is mapped to the template before it, one to that template
BlobD ==
    Crim(<<40, 41, 42>>, TRUE, 3,
         <<Prov("A", <<Ev(2, 1, Some(0)), Ev(3, 0, Some(2))>>,
                <<Tpl(0, 1, "B"), Tpl(2, 2, "A"), Tpl(1, 1, "A")>>),
           Prov("B", <<Ev(1, 1, Some(0))>>, <<Tpl(0, 1, "A")>>)>>)

\* rejected by the manifest parser
BlobE == Crim(<<50>>, FALSE, 0, <<>>)

\* offset + size exceeds u32::MAX
BlobF ==
    Crim(<<60, 61>>, TRUE, 2, <<Prov("B", <<>>, <<Tpl(U32Max, 2, "B")>>)>>)

\* the CRIM size is smaller than the blob, and the template lies behind it
BlobG ==
    Crim(<<70, 71, 72, 73>>, TRUE, 2,
         <<Prov("B", <<Ev(2, 0, Some(2))>>, <<Tpl(2, 2, "B")>>)>>)

\* a manifest without providers
BlobH == Crim(<<80>>, TRUE, 1, <<>>)

\* two providers
BlobI ==
    Crim(<<90, 91, 92>>, TRUE, 3,
         <<Prov("A", <<Ev(1, 0, Some(0))>>, <<Tpl(0, 3, "A")>>),
           Prov("B", <<Ev(1, 0, Some(1))>>, <<Tpl(1, 1, "B")>>)>>)

\* two templates of one provider at the same offset
BlobJ ==
    Crim(<<100, 101, 102>>, TRUE, 3,
         <<Prov("A", <<Ev(1, 0, Some(1))>>, <<Tpl(1, 1, "A"), Tpl(1, 2, "B")>>)>>)

CrimBlobs == {BlobA, BlobB, BlobC, BlobD, BlobE, BlobF, BlobG, BlobH, BlobI, BlobJ}

\* the manifest of each raw blob
ManifestOf == [bytes \in {b.data : b \in CrimBlobs} |-> CHOOSE b \in CrimBlobs : b.data = bytes]

\* CrimManifest::parse: the manifest of a raw blob
CrimManifest_parse(bytes) == ManifestOf[bytes]

\* Provider::template_by_offset: the template of the provider at that offset
template_by_offset(provider, off) ==
    LET hits == {i \in 1..Len(provider.templates) : provider.templates[i].offset = off}
    IN  IF hits = {} THEN None
        ELSE Some(provider.templates[CHOOSE i \in hits : \A j \in hits : i <= j])

(***************************************************************************)
(* The cache object.  A cache value is a record of the four fields of      *)
(* PyWevtCache; the state variables below hold the fields of the cache the *)
(* program works on.                                                       *)
(***************************************************************************)
Cache(ev, temps, res, inn) ==
    [event_to_template_guid |-> ev, temps_by_guid |-> temps,
     resources |-> res, inner |-> inn]

\* PyWevtCache::new
new == Cache(EmptyMap, EmptyMap, <<>>, EmptyMap)

\* usize::wrapping_add in the place of saturating_add
wrapping_add(a, b, umax) == (a + b) % (umax + 1)

\* usize::saturating_add on a target whose usize::MAX is umax
saturating_add(a, b, umax) == IF a + b > umax THEN umax ELSE a + b

\* WevtCache::insert_temp_bytes of the shared inner cache
insert_temp_bytes(inn, guid, temp_bytes) == MapInsert(inn, guid, temp_bytes)

\* insert_temp that keeps the bytes of a GUID that is stored already
insert_temp_keep_first(c, template_guid, temp_bytes) ==
    LET guid == normalize_guid(template_guid)
    IN  IF guid \in DOMAIN c.temps_by_guid THEN c
        ELSE [c EXCEPT !.inner = insert_temp_bytes(c.inner, guid, temp_bytes),
                       !.temps_by_guid = MapInsert(c.temps_by_guid, guid, temp_bytes)]

\* PyWevtCache::insert_temp
insert_temp(c, template_guid, temp_bytes) ==
    LET guid == normalize_guid(template_guid)
    IN  [c EXCEPT !.inner = insert_temp_bytes(c.inner, guid, temp_bytes),
                  !.temps_by_guid = MapInsert(c.temps_by_guid, guid, temp_bytes)]

\* the event loop that keeps the mapping of a key that is mapped already
RECURSIVE insert_events_keep_first(_, _, _, _)
insert_events_keep_first(ev, provider_guid, provider, i) ==
    IF i > Len(provider.events) THEN ev
    ELSE LET e == provider.events[i]
             key == <<provider_guid, e.identifier, e.version>>
             t == IF e.template_offset.some
                  THEN template_by_offset(provider, e.template_offset.v)
                  ELSE None
             ev2 == IF t.some /\ key \notin DOMAIN ev
                    THEN MapInsert(ev, key, normalize_guid(Guid_to_string(t.v.guid)))
                    ELSE ev
         IN  insert_events_keep_first(ev2, provider_guid, provider, i + 1)

\* the event loop that ends at the first event without a template
RECURSIVE insert_events_stop_at_none(_, _, _, _)
insert_events_stop_at_none(ev, provider_guid, provider, i) ==
    IF i > Len(provider.events) THEN ev
    ELSE LET e == provider.events[i]
             t == IF e.template_offset.some
                  THEN template_by_offset(provider, e.template_offset.v)
                  ELSE None
         IN  IF ~t.some THEN ev
             ELSE insert_events_stop_at_none(
                      MapInsert(ev, <<provider_guid, e.identifier, e.version>>,
                                normalize_guid(Guid_to_string(t.v.guid))),
                      provider_guid, provider, i + 1)

\* add_crim_blob, lines 340-351: the events of one provider, from event i on
RECURSIVE insert_events(_, _, _, _)
insert_events(ev, provider_guid, provider, i) ==
    IF i > Len(provider.events) THEN ev
    ELSE LET e == provider.events[i]
             t == IF e.template_offset.some
                  THEN template_by_offset(provider, e.template_offset.v)
                  ELSE None
             ev2 == IF t.some
                    THEN MapInsert(ev, <<provider_guid, e.identifier, e.version>>,
                                   normalize_guid(Guid_to_string(t.v.guid)))
                    ELSE ev
         IN  insert_events(ev2, provider_guid, provider, i + 1)

\* add_crim_blob, lines 355-367: the templates of one provider, from template
\* i on.  status is "ok", "RuntimeError" (the bounds check) or "panic" (a
\* slice index the bounds check let through).
RECURSIVE insert_templates(_, _, _, _, _, _)
insert_templates(c, data, templates, i, template_count, umax) ==
    IF i > Len(templates) THEN [c |-> c, count |-> template_count, status |-> "ok"]
    ELSE LET tpl == templates[i]
             start == tpl.offset
             end == saturating_add(start, tpl.size, umax)
         IN  IF end > Len(data)
             THEN [c |-> c, count |-> template_count, status |-> "RuntimeError"]
             ELSE IF start > end
             THEN [c |-> c, count |-> template_count, status |-> "panic"]
             ELSE insert_templates(
                      insert_temp(c, Guid_to_string(tpl.guid), SubSeq(data, start + 1, end)),
                      data, templates, i + 1,
                      saturating_add(template_count, 1, umax), umax)

\* add_crim_blob, lines 336-369: the providers of the manifest, from provider i on
RECURSIVE insert_providers(_, _, _, _, _, _)
insert_providers(c, data, providers, i, template_count, umax) ==
    IF i > Len(providers) THEN [c |-> c, count |-> template_count, status |-> "ok"]
    ELSE LET provider == providers[i]
             provider_guid == normalize_guid(Guid_to_string(provider.guid))
             c1 == [c EXCEPT !.event_to_template_guid =
                        insert_events(c.event_to_template_guid, provider_guid, provider, 1)]
             next(r) == IF r.status # "ok" THEN r
                        ELSE insert_providers(r.c, data, providers, i + 1, r.count, umax)
         IN  next(insert_templates(c1, data, provider.templates, 1, template_count, umax))

\* add_crim_blob that counts on from the number of templates stored already
add_crim_blob_cumulative(c, data, umax) ==
    LET manifest == CrimManifest_parse(data)
    IN  IF ~manifest.parse_ok
        THEN [c |-> c, count |-> 0, status |-> "RuntimeError"]
        ELSE insert_providers([c EXCEPT !.resources = Append(c.resources, data)],
                              data, manifest.providers, 1,
                              Cardinality(DOMAIN c.temps_by_guid), umax)

\* PyWevtCache::add_crim_blob
add_crim_blob(c, data, umax) ==
    LET manifest == CrimManifest_parse(data)
    IN  IF ~manifest.parse_ok
        THEN [c |-> c, count |-> 0, status |-> "RuntimeError"]
        ELSE insert_providers([c EXCEPT !.resources = Append(c.resources, data)],
                              data, manifest.providers, 1, 0, umax)

(***************************************************************************)
(* Paths.  A file name is text, a path is a sequence of file names.        *)
(***************************************************************************)
\* the characters of file names, in ASCII order
AsciiOrder == <<".", "A", "B", "D", "E", "L", "X", "a", "b", "c", "d", "e",
                "g", "i", "l", "n", "o", "p", "r", "s", "t", "u", "v", "x", "y">>

\* the rank of each character in ASCII order
AsciiRank ==
    [ch \in {AsciiOrder[i] : i \in 1..Len(AsciiOrder)} |->
        CHOOSE i \in 1..Len(AsciiOrder) : AsciiOrder[i] = ch]

\* the rank of a character in ASCII order
char_ord(ch) == AsciiRank[ch]

Min(a, b) == IF a <= b THEN a ELSE b

\* Ord for OsStr: byte-wise lexicographic
name_lt(a, b) ==
    \E i \in 1..(Min(Len(a), Len(b)) + 1) :
        /\ \A j \in 1..(i - 1) : a[j] = b[j]
        /\ \/ i > Len(a) /\ i <= Len(b)
           \/ i <= Len(a) /\ i <= Len(b) /\ char_ord(a[i]) < char_ord(b[i])

\* Ord for PathBuf: component-wise lexicographic
path_lt(p, q) ==
    \E i \in 1..(Min(Len(p), Len(q)) + 1) :
        /\ \A j \in 1..(i - 1) : p[j] = q[j]
        /\ \/ i > Len(p) /\ i <= Len(q)
           \/ i <= Len(p) /\ i <= Len(q) /\ name_lt(p[i], q[i])

\* the paths of a set, ascending
RECURSIVE sort_paths(_)
sort_paths(S) ==
    IF S = {} THEN <<>>
    ELSE LET m == CHOOSE p \in S : \A q \in S \ {p} : path_lt(p, q)
         IN  <<m>> \o sort_paths(S \ {m})

\* a sort that leaves the vector in the order of the listings
sort_keep_order(files) == files

\* Vec::sort of a vector of paths
sort(files) ==
    LET S == {files[i] : i \in 1..Len(files)}
        sorted == sort_paths(S)
        \* equal paths stay next to each other
        n(p) == Cardinality({i \in 1..Len(files) : files[i] = p})
    IN  IF Cardinality(S) = Len(files) THEN sorted
        ELSE LET RECURSIVE rep(_, _)
                 rep(p, k) == IF k = 0 THEN <<>> ELSE <<p>> \o rep(p, k - 1)
                 RECURSIVE expand(_)
                 expand(i) == IF i > Len(sorted) THEN <<>>
                              ELSE rep(sorted[i], n(sorted[i])) \o expand(i + 1)
             IN  expand(1)

Reverse(s) == [i \in 1..Len(s) |-> s[Len(s) + 1 - i]]

\* Path::extension of a file name: the text after the last dot; none without
\* a dot, and none when the only dot is the first character
extension(name) ==
    LET dots == {i \in 1..Len(name) : name[i] = "."}
    IN  IF dots = {} THEN None
        ELSE LET last == CHOOSE i \in dots : \A j \in dots : j <= i
             IN  IF last = 1 THEN None
                 ELSE Some(SubSeq(name, last + 1, Len(name)))

\* the file name of a path
file_name(path) == path[Len(path)]

(***************************************************************************)
(* The file system the binaries are read from.  It is not changed by the   *)
(* program.  A node is a directory (its entries are names with the node    *)
(* they lead to), a regular file (a binary with its WEVT_TEMPLATE          *)
(* resources) or something that is neither.                                *)
(***************************************************************************)
Dir(ents, ok) ==
    [kind |-> "dir", entries |-> ents, listable |-> ok,
     readable |-> FALSE, pe_ok |-> FALSE, resources |-> <<>>]
File(rd, pe, res) ==
    [kind |-> "file", entries |-> {}, listable |-> FALSE,
     readable |-> rd, pe_ok |-> pe, resources |-> res]

n_good == <<"g", "o", "o", "d">>
n_bad == <<"b", "a", "d">>
n_oob == <<"o", "o", "b">>
n_sub == <<"s", "u", "b">>
n_a_dll == <<"a", ".", "d", "l", "l">>
n_b_DLL == <<"b", ".", "D", "L", "L">>
n_b_dll == <<"b", ".", "d", "l", "l">>
n_c_dll == <<"c", ".", "d", "l", "l">>
n_c_txt == <<"c", ".", "t", "x", "t">>
n_d_sys == <<"d", ".", "s", "y", "s">>
n_a_exe == <<"a", ".", "e", "x", "e">>
n_b_exe == <<"b", ".", "e", "x", "e">>
n_c_exe == <<"c", ".", "e", "x", "e">>
n_e_dll == <<"e", ".", "d", "l", "l">>
n_t_dll == <<"t", ".", "d", "l", "l">>
n_x_dll == <<"x", ".", "d", "l", "l">>
n_gone == <<"g", "o">>
n_dup == <<"d", "u", "p">>
n_l_dll == <<"l", ".", "d", "l", "l">>
n_deny == <<"d", "e", "n", "y">>
n_priv == <<"p", "r", "i", "v">>
n_cyc == <<"c", "y", "c">>

Fs ==
    [root |-> Dir({<<n_good, "good">>, <<n_bad, "bad">>, <<n_oob, "oob">>,
                   <<n_e_dll, "f_e">>, <<n_t_dll, "f_t">>, <<n_x_dll, "f_x">>,
                   <<n_dup, "dup">>, <<n_deny, "deny">>, <<n_cyc, "cyc">>}, TRUE),
     good |-> Dir({<<n_a_dll, "g_a">>, <<n_b_DLL, "g_b">>, <<n_c_txt, "g_c">>,
                   <<n_sub, "sub">>}, TRUE),
     sub  |-> Dir({<<n_d_sys, "s_d">>}, TRUE),
     bad  |-> Dir({<<n_a_dll, "b_a">>, <<n_b_dll, "b_b">>, <<n_c_dll, "b_c">>}, TRUE),
     oob  |-> Dir({<<n_a_exe, "o_a">>, <<n_b_exe, "o_b">>, <<n_c_exe, "o_c">>}, TRUE),
     g_a  |-> File(TRUE, TRUE, <<BlobA.data>>),
     g_b  |-> File(TRUE, TRUE, <<BlobB.data>>),
     g_c  |-> File(TRUE, TRUE, <<BlobC.data>>),
     s_d  |-> File(TRUE, TRUE, <<BlobI.data>>),
     b_a  |-> File(TRUE, TRUE, <<BlobH.data, BlobG.data>>),
     b_b  |-> File(FALSE, FALSE, <<>>),
     b_c  |-> File(TRUE, TRUE, <<BlobB.data>>),
     o_a  |-> File(TRUE, TRUE, <<BlobA.data>>),
     o_b  |-> File(TRUE, TRUE, <<BlobD.data, BlobB.data>>),
     o_c  |-> File(TRUE, TRUE, <<BlobI.data>>),
     f_e  |-> File(TRUE, TRUE, <<BlobE.data>>),
     f_t  |-> File(TRUE, TRUE, <<BlobF.data>>),
     f_x  |-> File(TRUE, FALSE, <<>>),
     \* dup/a.dll and dup/sub/l.dll are two names of one file
     dup  |-> Dir({<<n_a_dll, "d_a">>, <<n_sub, "d_s">>}, TRUE),
     d_s  |-> Dir({<<n_l_dll, "d_a">>}, TRUE),
     d_a  |-> File(TRUE, TRUE, <<BlobA.data>>),
     \* deny/priv is a directory that cannot be listed
     deny |-> Dir({<<n_a_dll, "n_a">>, <<n_priv, "priv">>}, TRUE),
     priv |-> Dir({<<n_b_dll, "n_b">>}, FALSE),
     n_a  |-> File(TRUE, TRUE, <<BlobB.data>>),
     n_b  |-> File(TRUE, TRUE, <<BlobA.data>>),
     \* cyc/sub is a link that leads back to cyc
     cyc  |-> Dir({<<n_a_dll, "c_a">>, <<n_sub, "cyc">>}, TRUE),
     c_a  |-> File(TRUE, TRUE, <<BlobA.data>>)]

\* the longest path, in names, that the system resolves: a longer one (too
\* many links followed, or too long a name) is neither a file nor a directory
MaxPathLen == 4

\* the node a path leads to from the working directory, if any
RECURSIVE resolve_from(_, _, _)
resolve_from(node, path, i) ==
    IF i > Len(path) THEN Some(node)
    ELSE IF Fs[node].kind # "dir" THEN None
    ELSE LET next == {e \in Fs[node].entries : e[1] = path[i]}
         IN  IF next = {} THEN None
             ELSE resolve_from((CHOOSE e \in next : TRUE)[2], path, i + 1)

resolve(path) == IF Len(path) > MaxPathLen THEN None ELSE resolve_from("root", path, 1)

\* Path::exists, Path::is_file, Path::is_dir
exists(path) == resolve(path).some
is_file(path) == resolve(path).some /\ Fs[resolve(path).v].kind = "file"
is_dir(path) == resolve(path).some /\ Fs[resolve(path).v].kind = "dir"

\* py_err_from_io_err: the exception of an io::Error of the given kind
py_err_from_io_err(kind) ==
    IF kind = "NotFound" THEN "FileNotFoundError" ELSE "OSError"

\* std::fs::read followed by py_err_from_io_err
fs_read(path) ==
    LET at(n) ==
            IF ~n.some THEN [status |-> py_err_from_io_err("NotFound"), node |-> "root"]
            ELSE IF Fs[n.v].kind # "file"
            THEN [status |-> py_err_from_io_err("IsADirectory"), node |-> "root"]
            ELSE IF ~Fs[n.v].readable
            THEN [status |-> py_err_from_io_err("PermissionDenied"), node |-> "root"]
            ELSE [status |-> "ok", node |-> n.v]
    IN  at(resolve(path))

\* extract_wevt_template_resources followed by py_err_from_wevt_extract_error
extract_wevt_template_resources(node) ==
    IF Fs[node].pe_ok THEN [status |-> "ok", resources |-> Fs[node].resources]
    ELSE [status |-> "RuntimeError", resources |-> <<>>]

\* add_pe_file, lines 383-385: the resources of one binary, from resource i on
RECURSIVE add_resources(_, _, _, _, _)
add_resources(c, resources, i, template_count, umax) ==
    IF i > Len(resources) THEN [c |-> c, count |-> template_count, status |-> "ok"]
    ELSE LET next(r) ==
                 IF r.status # "ok"
                 THEN [c |-> r.c, count |-> template_count, status |-> r.status]
                 ELSE add_resources(r.c, resources, i + 1,
                                    saturating_add(template_count, r.count, umax), umax)
         IN  next(add_crim_blob(c, resources[i], umax))

\* PyWevtCache::add_pe_file
add_pe_file(c, path, umax) ==
    LET extracted(x) ==
            IF x.status # "ok" THEN [c |-> c, count |-> 0, status |-> x.status]
            ELSE add_resources(c, x.resources, 1, 0, umax)
        read(bytes) ==
            IF bytes.status # "ok" THEN [c |-> c, count |-> 0, status |-> bytes.status]
            ELSE extracted(extract_wevt_template_resources(bytes.node))
    IN  read(fs_read(path))

(***************************************************************************)
(* add_dir: the extension list, the traversal and the ingestion loop.      *)
(***************************************************************************)
\* str::split(','): the pieces of s between commas, from position i on, cur
\* being the piece read so far
RECURSIVE split_from(_, _, _)
split_from(s, i, cur) ==
    IF i > Len(s) THEN <<cur>>
    ELSE IF s[i] = "," THEN <<cur>> \o split_from(s, i + 1, <<>>)
    ELSE split_from(s, i + 1, Append(cur, s[i]))

split(s) == split_from(s, 1, <<>>)

\* str::trim
RECURSIVE trim(_)
trim(s) ==
    IF Len(s) > 0 /\ s[1] = " " THEN trim(Tail(s))
    ELSE IF Len(s) > 0 /\ s[Len(s)] = " " THEN trim(SubSeq(s, 1, Len(s) - 1))
    ELSE s

\* str::trim_start_matches('.')
RECURSIVE trim_start_matches_dot(_)
trim_start_matches_dot(s) ==
    IF Len(s) > 0 /\ s[1] = "." THEN trim_start_matches_dot(Tail(s)) ELSE s

\* the default of the extensions argument, "exe,dll,sys"
default_extensions == <<"e", "x", "e", ",", "d", "l", "l", ",", "s", "y", "s">>

\* add_dir, lines 102-107: the allow-list of an extensions argument
allowed_exts_of(extensions) ==
    LET text == IF extensions.some THEN extensions.v ELSE default_extensions
        pieces == split(text)
        cleaned == {to_ascii_lowercase(trim_start_matches_dot(trim(pieces[i]))) :
                        i \in 1..Len(pieces)}
    IN  {e \in cleaned : e # <<>>}

\* should_keep_file
should_keep_file(path, allowed_exts) ==
    LET ext == extension(file_name(path))
    IN  IF ~ext.some THEN FALSE
        ELSE to_ascii_lowercase(ext.v) \in allowed_exts

\* std::fs::read_dir of a directory: the paths of its entries, in one of the
\* orders a listing can have
read_dir(dir, rev) ==
    LET ents == {Append(dir, e[1]) : e \in Fs[resolve(dir).v].entries}
    IN  IF rev THEN Reverse(sort_paths(ents)) ELSE sort_paths(ents)

\* the loop over a listing that queues a subdirectory whatever the recursive flag
RECURSIVE visit_entries_descend(_, _, _, _, _, _, _)
visit_entries_descend(entries, i, recursive, allowed_exts, queue, seen, out_files) ==
    IF i > Len(entries) THEN [queue |-> queue, seen |-> seen, out_files |-> out_files]
    ELSE LET p == entries[i]
         IN  IF is_dir(p)
             THEN visit_entries_descend(entries, i + 1, recursive, allowed_exts,
                                        Append(queue, p), seen, out_files)
             ELSE IF is_file(p) /\ should_keep_file(p, allowed_exts) /\ p \notin seen
             THEN visit_entries_descend(entries, i + 1, recursive, allowed_exts, queue,
                                        seen \cup {p}, Append(out_files, p))
             ELSE visit_entries_descend(entries, i + 1, recursive, allowed_exts, queue,
                                        seen, out_files)

\* collect_input_paths, lines 450-461: the entries of one listing, from entry i on
RECURSIVE visit_entries(_, _, _, _, _, _, _)
visit_entries(entries, i, recursive, allowed_exts, queue, seen, out_files) ==
    IF i > Len(entries) THEN [queue |-> queue, seen |-> seen, out_files |-> out_files]
    ELSE LET p == entries[i]
         IN  IF is_dir(p)
             THEN visit_entries(entries, i + 1, recursive, allowed_exts,
                                IF recursive THEN Append(queue, p) ELSE queue,
                                seen, out_files)
             ELSE IF is_file(p) /\ should_keep_file(p, allowed_exts) /\ p \notin seen
             THEN visit_entries(entries, i + 1, recursive, allowed_exts, queue,
                                seen \cup {p}, Append(out_files, p))
             ELSE visit_entries(entries, i + 1, recursive, allowed_exts, queue,
                                seen, out_files)

\* collect_input_paths, lines 448-462: the breadth-first loop over the queue;
\* listed is the history of the loop: the directories it has read, in order
RECURSIVE walk(_, _, _, _, _, _)
walk(queue, recursive, allowed_exts, seen, out_files, rev) ==
    IF queue = <<>> THEN [status |-> "ok", out_files |-> out_files, listed |-> <<>>]
    ELSE LET dir == Head(queue)
         IN  IF ~Fs[resolve(dir).v].listable
             THEN [status |-> py_err_from_io_err("PermissionDenied"),
                   out_files |-> out_files, listed |-> <<>>]
             ELSE LET next(r) ==
                          [r EXCEPT !.listed = <<dir>> \o @]
                      rest(r) ==
                          walk(r.queue, recursive, allowed_exts, r.seen, r.out_files, rev)
                  IN  next(rest(visit_entries(read_dir(dir, rev), 1, recursive,
                                              allowed_exts, Tail(queue), seen,
                                              out_files)))

\* collect_input_paths that reports a missing input path as an error
collect_input_paths_missing_fails(input, recursive, allowed_exts, rev) ==
    IF ~exists(input)
    THEN [status |-> py_err_from_io_err("NotFound"), out_files |-> <<>>, listed |-> <<>>]
    ELSE IF is_file(input) THEN [status |-> "ok", out_files |-> <<input>>, listed |-> <<>>]
    ELSE IF is_dir(input) THEN walk(<<input>>, recursive, allowed_exts, {}, <<>>, rev)
    ELSE [status |-> "ok", out_files |-> <<>>, listed |-> <<>>]

\* collect_input_paths, called with empty seen and out_files
collect_input_paths(input, recursive, allowed_exts, rev) ==
    IF ~exists(input) THEN [status |-> "ok", out_files |-> <<>>, listed |-> <<>>]
    ELSE IF is_file(input) THEN [status |-> "ok", out_files |-> <<input>>, listed |-> <<>>]
    ELSE IF is_dir(input) THEN walk(<<input>>, recursive, allowed_exts, {}, <<>>, rev)
    ELSE [status |-> "ok", out_files |-> <<>>, listed |-> <<>>]

\* the ingestion loop that skips a file that fails and goes on with the next
RECURSIVE add_files_skip(_, _, _, _, _)
add_files_skip(c, files, i, total, umax) ==
    IF i > Len(files) THEN [c |-> c, count |-> total, status |-> "ok"]
    ELSE LET next(r) ==
                 IF r.status # "ok" THEN add_files_skip(r.c, files, i + 1, total, umax)
                 ELSE add_files_skip(r.c, files, i + 1,
                                     saturating_add(total, r.count, umax), umax)
         IN  next(add_pe_file(c, files[i], umax))

\* add_dir, lines 120-124: the ingestion loop, from file i on
RECURSIVE add_files(_, _, _, _, _)
add_files(c, files, i, total, umax) ==
    IF i > Len(files) THEN [c |-> c, count |-> total, status |-> "ok"]
    ELSE LET next(r) ==
                 IF r.status # "ok" THEN [c |-> r.c, count |-> total, status |-> r.status]
                 ELSE add_files(r.c, files, i + 1,
                                saturating_add(total, r.count, umax), umax)
         IN  next(add_pe_file(c, files[i], umax))

\* PyWevtCache::add_dir
add_dir(c, path, recursive, extensions, rev, umax) ==
    LET allowed_exts == allowed_exts_of(extensions)
        ingest(collected) ==
            IF collected.status # "ok"
            THEN [c |-> c, count |-> 0, status |-> collected.status]
            ELSE add_files(c, sort(collected.out_files), 1, 0, umax)
    IN  ingest(collect_input_paths(path, recursive, allowed_exts, rev))

\* PyWevtCache::add_dll
add_dll(c, path, umax) == add_pe_file(c, path, umax)

(***************************************************************************)
(* Cache files.  WevtCacheWriter and WevtCacheReader are collaborators: a  *)
(* file is a header (magic, version) and a sequence of entries, each with  *)
(* a kind tag, a length field and a payload.                               *)
(***************************************************************************)
Entry(k, ok, bytes) == [kind |-> k, len_ok |-> ok, payload |-> bytes]
CacheFile(m, v, es) == [magic_ok |-> m, version_ok |-> v, entries |-> es]

n_c_wevtcache == <<"c", ".", "w", "e", "v", "t", "c", "a", "c", "h", "e">>
n_o_wevtcache == <<"o", ".", "w", "e", "v", "t", "c", "a", "c", "h", "e">>
n_k_wevtcache == <<"k", ".", "w", "e", "v", "t", "c", "a", "c", "h", "e">>
n_m_wevtcache == <<"m", ".", "w", "e", "v", "t", "c", "a", "c", "h", "e">>
n_v_wevtcache == <<"v", ".", "w", "e", "v", "t", "c", "a", "c", "h", "e">>
n_l_wevtcache == <<"l", ".", "w", "e", "v", "t", "c", "a", "c", "h", "e">>
n_c_bin == <<"c", ".", "b", "i", "n">>
n_x_WEVTCACHE == <<"x", ".", "W", "E", "V", "T", "C", "A", "C", "H", "E">>

\* the paths of cache files
CachePaths == {<<n_c_wevtcache>>, <<n_o_wevtcache>>, <<n_k_wevtcache>>,
               <<n_m_wevtcache>>, <<n_v_wevtcache>>, <<n_l_wevtcache>>, <<n_c_bin>>,
               <<n_x_WEVTCACHE>>}

\* the cache files that exist before the program runs
InitialDisk ==
    [p \in CachePaths |->
        IF p = <<n_o_wevtcache>>
        THEN Some(CacheFile(TRUE, TRUE, <<Entry("Crim", TRUE, BlobA.data)>>))
        ELSE IF p = <<n_k_wevtcache>>
        THEN Some(CacheFile(TRUE, TRUE, <<Entry("Crim", TRUE, BlobB.data),
                                          Entry("Unknown", TRUE, <<1>>)>>))
        ELSE IF p = <<n_m_wevtcache>>
        THEN Some(CacheFile(FALSE, TRUE, <<Entry("Crim", TRUE, BlobA.data)>>))
        ELSE IF p = <<n_v_wevtcache>>
        THEN Some(CacheFile(TRUE, FALSE, <<Entry("Crim", TRUE, BlobA.data)>>))
        ELSE IF p = <<n_l_wevtcache>>
        THEN Some(CacheFile(TRUE, TRUE, <<Entry("Crim", TRUE, BlobA.data),
                                          Entry("Crim", FALSE, BlobB.data)>>))
        ELSE IF p = <<n_x_WEVTCACHE>>
        THEN Some(CacheFile(TRUE, TRUE, <<Entry("Crim", TRUE, BlobB.data)>>))
        ELSE None]

\* the `.wevtcache` test of load and dump
is_wevtcache_path(path) ==
    LET ext == extension(file_name(path))
    IN  ext.some /\ ext.v = <<"w", "e", "v", "t", "c", "a", "c", "h", "e">>

\* the loop over the resources that writes the last resource first
write_crim_blobs_reversed(res) ==
    [i \in 1..Len(res) |-> Entry("Crim", TRUE, res[Len(res) + 1 - i])]

\* dump_to_wevtcache_file, lines 413-417: one entry per resource
write_crim_blobs(res) == [i \in 1..Len(res) |-> Entry("Crim", TRUE, res[i])]

\* py_err_from_wevt_cache_file_error: the exception of a WevtCacheFileError
py_err_from_wevt_cache_file_error(e) ==
    IF e \in {"OutputExists", "InvalidMagic", "UnsupportedVersion",
              "UnknownEntryKind", "EntryLengthTooLarge"} THEN "ValueError"
    ELSE IF e = "EntryCountOverflow" THEN "RuntimeError"
    ELSE "IOError"

\* WevtCacheWriter::create: "ok" or the WevtCacheFileError
WevtCacheWriter_create(d, path, overwrite) ==
    IF d[path].some /\ ~overwrite THEN "OutputExists" ELSE "ok"

\* WevtCacheReader::open: "ok" or the WevtCacheFileError
WevtCacheReader_open(d, path) ==
    IF ~d[path].some THEN "Io"
    ELSE IF ~d[path].v.magic_ok THEN "InvalidMagic"
    ELSE IF ~d[path].v.version_ok THEN "UnsupportedVersion"
    ELSE "ok"

\* WevtCacheReader::next_entry on an entry of the file: "ok" or the WevtCacheFileError
next_entry(entry) ==
    IF entry.kind # "Crim" THEN "UnknownEntryKind"
    ELSE IF ~entry.len_ok THEN "EntryLengthTooLarge"
    ELSE "ok"

\* dump_to_wevtcache_file that goes on to write when the writer was not created
dump_to_wevtcache_file_overwrites(c, d, path, overwrite) ==
    LET created(w) ==
            [disk |-> [d EXCEPT ![path] =
                          Some(CacheFile(TRUE, TRUE, write_crim_blobs(c.resources)))],
             status |-> IF w # "ok" THEN py_err_from_wevt_cache_file_error(w) ELSE "ok",
             err |-> w]
    IN  created(WevtCacheWriter_create(d, path, overwrite))

\* PyWevtCache::dump_to_wevtcache_file: the disk after the call and its status
dump_to_wevtcache_file(c, d, path, overwrite) ==
    LET created(w) ==
            IF w # "ok"
            THEN [disk |-> d, status |-> py_err_from_wevt_cache_file_error(w), err |-> w]
            ELSE [disk |-> [d EXCEPT ![path] =
                                Some(CacheFile(TRUE, TRUE, write_crim_blobs(c.resources)))],
                  status |-> "ok", err |-> w]
    IN  created(WevtCacheWriter_create(d, path, overwrite))

\* dump that creates the file before it looks at the extension
dump_creating_first(c, d, path, overwrite) ==
    LET checked(r) ==
            IF r.status = "ok" /\ ~is_wevtcache_path(path)
            THEN [disk |-> r.disk, status |-> "ValueError", err |-> "ExpectedWevtcache"]
            ELSE r
    IN  checked(dump_to_wevtcache_file(c, d, path, overwrite))

\* PyWevtCache::dump; err tells the errors of one exception type apart: the
\* message of the extension check, or the error of the writer
dump(c, d, path, overwrite) ==
    IF ~is_wevtcache_path(path)
    THEN [disk |-> d, status |-> "ValueError", err |-> "ExpectedWevtcache"]
    ELSE dump_to_wevtcache_file(c, d, path, overwrite)

\* the loop over the entries that ends at an entry it cannot read or ingest
\* and keeps what it has ingested
RECURSIVE load_entries_best_effort(_, _, _, _)
load_entries_best_effort(c, entries, i, umax) ==
    IF i > Len(entries) THEN [c |-> c, count |-> 0, status |-> "ok"]
    ELSE IF next_entry(entries[i]) # "ok" THEN [c |-> c, count |-> 0, status |-> "ok"]
    ELSE LET next(r) ==
                 IF r.status # "ok" THEN [c |-> c, count |-> 0, status |-> "ok"]
                 ELSE load_entries_best_effort(r.c, entries, i + 1, umax)
         IN  next(add_crim_blob(c, entries[i].payload, umax))

\* load_wevtcache_file, lines 395-404: the entries of the file, from entry i on
RECURSIVE load_entries(_, _, _, _)
load_entries(c, entries, i, umax) ==
    IF i > Len(entries) THEN [c |-> c, count |-> 0, status |-> "ok"]
    ELSE IF next_entry(entries[i]) # "ok"
    THEN [c |-> c, count |-> 0,
          status |-> py_err_from_wevt_cache_file_error(next_entry(entries[i]))]
    ELSE LET next(r) ==
                 IF r.status # "ok" THEN [c |-> r.c, count |-> 0, status |-> r.status]
                 ELSE load_entries(r.c, entries, i + 1, umax)
         IN  next(add_crim_blob(c, entries[i].payload, umax))

\* PyWevtCache::load_wevtcache_file
load_wevtcache_file(c, d, path, umax) ==
    LET opened(reader) ==
            IF reader # "ok"
            THEN [c |-> c, count |-> 0,
                  status |-> py_err_from_wevt_cache_file_error(reader)]
            ELSE load_entries(c, d[path].v.entries, 1, umax)
    IN  opened(WevtCacheReader_open(d, path))

\* PyWevtCache::load: the cache built, which the caller receives when status is "ok"
load(d, path, umax) ==
    IF ~is_wevtcache_path(path) THEN [c |-> new, count |-> 0, status |-> "ValueError"]
    ELSE load_wevtcache_file(new, d, path, umax)

(***************************************************************************)
(* Lookups and rendering.  The renderer is a collaborator: it rejects some *)
(* byte-code and otherwise yields a text determined by the template bytes  *)
(* and the values.                                                         *)
(***************************************************************************)
NoText == <<>>
NoXml == [temp |-> <<>>, values |-> <<>>]

\* resolve_template_guid that looks the provider GUID up as it was given
resolve_template_guid_raw(c, provider_guid, event_id, version) ==
    LET key == <<provider_guid, event_id, version>>
    IN  IF key \in DOMAIN c.event_to_template_guid
        THEN [status |-> "ok", guid |-> c.event_to_template_guid[key]]
        ELSE [status |-> "KeyError", guid |-> NoText]

\* resolve_template_guid that falls back to another version of the event
resolve_template_guid_any_version(c, provider_guid, event_id, version) ==
    LET key == <<normalize_guid(provider_guid), event_id, version>>
        near == {k \in DOMAIN c.event_to_template_guid : k[1] = key[1] /\ k[2] = key[2]}
    IN  IF key \in DOMAIN c.event_to_template_guid
        THEN [status |-> "ok", guid |-> c.event_to_template_guid[key]]
        ELSE IF near # {}
        THEN [status |-> "ok", guid |-> c.event_to_template_guid[CHOOSE k \in near : TRUE]]
        ELSE [status |-> "KeyError", guid |-> NoText]

\* PyWevtCache::resolve_template_guid
resolve_template_guid(c, provider_guid, event_id, version) ==
    LET key == <<normalize_guid(provider_guid), event_id, version>>
    IN  IF key \in DOMAIN c.event_to_template_guid
        THEN [status |-> "ok", guid |-> c.event_to_template_guid[key]]
        ELSE [status |-> "KeyError", guid |-> NoText]

\* resolve_ansi_codec: the names of the codecs the encoding table knows
KnownCodecs == {"utf-8"}
resolve_ansi_codec(ansi_codec) ==
    IF ansi_codec.some /\ ansi_codec.v \notin KnownCodecs THEN "ValueError" ELSE "ok"

\* render_temp_to_xml_with_values: byte-code that starts with an odd byte is rejected
render_temp_to_xml_with_values(temp, values) ==
    IF temp = <<>> \/ temp[1] % 2 = 1 THEN [status |-> "RuntimeError", xml |-> NoXml]
    ELSE [status |-> "ok", xml |-> [temp |-> temp, values |-> values]]

\* render_temp_to_xml: the substitutions are rendered as placeholders
render_temp_to_xml(temp) == render_temp_to_xml_with_values(temp, <<"{sub:N}">>)

(***************************************************************************)
(* The Python values given as substitutions, and their conversion          *)
(* (binxml_values_from_py_list).  The 64-bit integers are scaled to        *)
(* U32Bits bits, the finite floats to twice that width.                    *)
(***************************************************************************)
I64Min == 0 - Pow2(U32Bits - 1)
I64Max == Pow2(U32Bits - 1) - 1
U64Max == Pow2(U32Bits) - 1
F64Max == Pow2(2 * U32Bits)

\* a Python object: its type, its truth value (bool), its number (int, float),
\* its bytes or characters (str, bytes), and what str(obj) does
Py(ty, b, n, s, str_ok, str) ==
    [ty |-> ty, b |-> b, n |-> n, s |-> s, str_ok |-> str_ok, str |-> str]

\* the substitutions argument: a sequence of objects, or an object that is none
PyList(items) == [is_seq |-> TRUE, items |-> items]
PyNotASequence == [is_seq |-> FALSE, items |-> <<>>]

\* BinXmlValue: a tagged value
BinXmlValue(tag, b, n, s) == [tag |-> tag, b |-> b, n |-> n, s |-> s]
NullType == BinXmlValue("NullType", FALSE, 0, "")
BoolType(b) == BinXmlValue("BoolType", b, 0, "")
Int64Type(i) == BinXmlValue("Int64Type", FALSE, i, "")
UInt64Type(u) == BinXmlValue("UInt64Type", FALSE, u, "")
Real64Type(f) == BinXmlValue("Real64Type", FALSE, f, "")
AnsiStringType(s) == BinXmlValue("AnsiStringType", FALSE, 0, s)
BinaryType(s) == BinXmlValue("BinaryType", FALSE, 0, s)

\* item.is_none()
is_none(item) == item.ty = "NoneType"
\* item.extract::<bool>(): only a bool
extract_bool_ok(item) == item.ty = "bool"
\* item.extract::<i64>(): an int (a bool is an int) that fits i64
extract_i64_ok(item) == item.ty \in {"int", "bool"} /\ I64Min <= item.n /\ item.n <= I64Max
\* item.extract::<u64>(): an int that fits u64
extract_u64_ok(item) == item.ty \in {"int", "bool"} /\ 0 <= item.n /\ item.n <= U64Max
\* item.extract::<f64>(): a float, or an int that float() can hold
extract_f64_ok(item) ==
    \/ item.ty = "float"
    \/ item.ty \in {"int", "bool"} /\ 0 - F64Max <= item.n /\ item.n <= F64Max
\* item.extract::<String>(): only a str
extract_String_ok(item) == item.ty = "str"
\* item.downcast::<PyBytes>()
downcast_PyBytes_ok(item) == item.ty = "bytes"

\* the conversion that tries the integer before the bool
binxml_value_int_first(item) ==
    IF is_none(item) THEN [status |-> "ok", value |-> NullType]
    ELSE IF extract_i64_ok(item) THEN [status |-> "ok", value |-> Int64Type(item.n)]
    ELSE IF extract_bool_ok(item) THEN [status |-> "ok", value |-> BoolType(item.b)]
    ELSE IF extract_u64_ok(item) THEN [status |-> "ok", value |-> UInt64Type(item.n)]
    ELSE IF extract_f64_ok(item) THEN [status |-> "ok", value |-> Real64Type(item.n)]
    ELSE IF extract_String_ok(item) THEN [status |-> "ok", value |-> AnsiStringType(item.s)]
    ELSE IF downcast_PyBytes_ok(item) THEN [status |-> "ok", value |-> BinaryType(item.s)]
    ELSE IF item.str_ok THEN [status |-> "ok", value |-> AnsiStringType(item.str)]
    ELSE [status |-> "Exception", value |-> NullType]

\* the body of the loop of binxml_values_from_py_list: the value one item becomes
binxml_value(item) ==
    IF is_none(item) THEN [status |-> "ok", value |-> NullType]
    ELSE IF extract_bool_ok(item) THEN [status |-> "ok", value |-> BoolType(item.b)]
    ELSE IF extract_i64_ok(item) THEN [status |-> "ok", value |-> Int64Type(item.n)]
    ELSE IF extract_u64_ok(item) THEN [status |-> "ok", value |-> UInt64Type(item.n)]
    ELSE IF extract_f64_ok(item) THEN [status |-> "ok", value |-> Real64Type(item.n)]
    ELSE IF extract_String_ok(item) THEN [status |-> "ok", value |-> AnsiStringType(item.s)]
    ELSE IF downcast_PyBytes_ok(item) THEN [status |-> "ok", value |-> BinaryType(item.s)]
    ELSE IF item.str_ok THEN [status |-> "ok", value |-> AnsiStringType(item.str)]
    ELSE [status |-> "Exception", value |-> NullType]

\* the loop of binxml_values_from_py_list from item idx on, out being pushed so far
RECURSIVE binxml_values_loop(_, _, _)
binxml_values_loop(items, idx, out) ==
    IF idx > Len(items) THEN [status |-> "ok", values |-> out]
    ELSE IF binxml_value(items[idx]).status # "ok"
    THEN [status |-> binxml_value(items[idx]).status, values |-> <<>>]
    ELSE binxml_values_loop(items, idx + 1, Append(out, binxml_value(items[idx]).value))

\* binxml_values_from_py_list: what is no sequence is a TypeError
binxml_values_from_py_list(substitutions) ==
    IF ~substitutions.is_seq THEN [status |-> "TypeError", values |-> <<>>]
    ELSE binxml_values_loop(substitutions.items, 1, <<>>)

\* render_template_xml that renders the first template it finds when the GUID is absent
render_template_xml_any_template(c, template_guid, substitutions, ansi_codec) ==
    IF resolve_ansi_codec(ansi_codec) # "ok" THEN [status |-> "ValueError", xml |-> NoXml]
    ELSE LET converted(values) ==
                 IF values.status # "ok" THEN [status |-> values.status, xml |-> NoXml]
                 ELSE LET guid == normalize_guid(template_guid)
                      IN  IF guid \in DOMAIN c.temps_by_guid
                          THEN render_temp_to_xml_with_values(c.temps_by_guid[guid],
                                                              values.values)
                          ELSE IF DOMAIN c.temps_by_guid # {}
                          THEN render_temp_to_xml_with_values(
                                   c.temps_by_guid[CHOOSE g \in DOMAIN c.temps_by_guid : TRUE],
                                   values.values)
                          ELSE [status |-> "KeyError", xml |-> NoXml]
         IN  converted(binxml_values_from_py_list(substitutions))

\* PyWevtCache::render_template_xml
render_template_xml(c, template_guid, substitutions, ansi_codec) ==
    IF resolve_ansi_codec(ansi_codec) # "ok" THEN [status |-> "ValueError", xml |-> NoXml]
    ELSE LET converted(values) ==
                 IF values.status # "ok" THEN [status |-> values.status, xml |-> NoXml]
                 ELSE LET guid == normalize_guid(template_guid)
                      IN  IF guid \notin DOMAIN c.temps_by_guid
                          THEN [status |-> "KeyError", xml |-> NoXml]
                          ELSE render_temp_to_xml_with_values(c.temps_by_guid[guid],
                                                              values.values)
         IN  converted(binxml_values_from_py_list(substitutions))

(***************************************************************************)
(* The record source of render_record_xml: what the argument is, and what  *)
(* the chunk and record iterators of the EVTX parser yield on it.          *)
(***************************************************************************)
\* one item of chunk.iter(): a record with its id and what template_instances()
\* gives (the values of each instance), or an error; whether into_xml() and
\* into_json() succeed on it
EvtxRecord(ok, id, instances_ok, instances, serializes) ==
    [ok |-> ok, event_record_id |-> id, instances_ok |-> instances_ok,
     instances |-> instances, serializes |-> serializes]

\* one item of parser.chunks(): whether reading it and parsing it succeed, and
\* its records
EvtxChunk(read_ok, parse_ok, records) ==
    [read_ok |-> read_ok, parse_ok |-> parse_ok, records |-> records]

\* the argument: a path ("path"), an object with read and seek ("file_like") or
\* another object ("other"); whether the path exists; whether the file header
\* parses; the chunks
EvtxSource(kind, exists_, header_ok, chunks) ==
    [kind |-> kind, exists |-> exists_, header_ok |-> header_ok, chunks |-> chunks]

\* the outcome of render_record_xml: the exception type (or "ok"), the place
\* that raised it, the XML, whether the source was opened, and the positions
\* <<chunk, record>> pulled from the iterators (<<chunk, 0>> is the chunk itself)
Outcome(status, err, xml, opened, examined) ==
    [status |-> status, err |-> err, xml |-> xml, opened |-> opened,
     examined |-> examined]

\* the body of the record loop for a record whose id matches: the instance at
\* index 0 is taken whatever the index asked for
select_record_first_instance(c, record, template_instance_index, template_guid) ==
    IF ~record.instances_ok
    THEN [status |-> "RuntimeError", err |-> "template_instances", xml |-> NoXml]
    ELSE IF Len(record.instances) = 0
    THEN [status |-> "ValueError", err |-> "no TemplateInstance at index", xml |-> NoXml]
    ELSE IF template_guid \notin DOMAIN c.temps_by_guid
    THEN [status |-> "KeyError", err |-> "template GUID not found", xml |-> NoXml]
    ELSE LET rendered(r) ==
                 [status |-> r.status, xml |-> r.xml,
                  err |-> IF r.status = "ok" THEN "" ELSE "render"]
         IN  rendered(render_temp_to_xml_with_values(c.temps_by_guid[template_guid],
                                                     record.instances[1]))

\* the body of the record loop for a record whose id matches (lines 281-306)
select_record(c, record, template_instance_index, template_guid) ==
    IF ~record.instances_ok
    THEN [status |-> "RuntimeError", err |-> "template_instances", xml |-> NoXml]
    ELSE IF template_instance_index + 1 > Len(record.instances)
    THEN [status |-> "ValueError", err |-> "no TemplateInstance at index", xml |-> NoXml]
    ELSE IF template_guid \notin DOMAIN c.temps_by_guid
    THEN [status |-> "KeyError", err |-> "template GUID not found", xml |-> NoXml]
    ELSE LET rendered(r) ==
                 [status |-> r.status, xml |-> r.xml,
                  err |-> IF r.status = "ok" THEN "" ELSE "render"]
         IN  rendered(render_temp_to_xml_with_values(
                          c.temps_by_guid[template_guid],
                          record.instances[template_instance_index + 1]))

\* the record loop that decides on the last record with the id
RECURSIVE scan_records_last_match(_, _, _, _, _, _, _, _)
scan_records_last_match(c, records, ci, ri, record_id, template_instance_index, template_guid, examined) ==
    IF ri > Len(records) THEN [done |-> FALSE, out |-> Outcome("", "", NoXml, TRUE, examined)]
    ELSE IF ~records[ri].ok
    THEN [done |-> TRUE,
          out |-> Outcome("RuntimeError", "record", NoXml, TRUE,
                          Append(examined, <<ci, ri>>))]
    ELSE IF \/ records[ri].event_record_id # record_id
            \/ \E rj \in (ri + 1)..Len(records) :
                   records[rj].ok /\ records[rj].event_record_id = record_id
    THEN scan_records_last_match(c, records, ci, ri + 1, record_id,
                                 template_instance_index, template_guid,
                                 Append(examined, <<ci, ri>>))
    ELSE LET selected(r) ==
                 [done |-> TRUE,
                  out |-> Outcome(r.status, r.err, r.xml, TRUE,
                                  Append(examined, <<ci, ri>>))]
         IN  selected(select_record(c, records[ri], template_instance_index,
                                    template_guid))

\* the record loop (lines 275-307) from record ri of chunk ci on: done when it
\* returned, not done when the chunk has no more records
RECURSIVE scan_records(_, _, _, _, _, _, _, _)
scan_records(c, records, ci, ri, record_id, template_instance_index, template_guid, examined) ==
    IF ri > Len(records) THEN [done |-> FALSE, out |-> Outcome("", "", NoXml, TRUE, examined)]
    ELSE IF ~records[ri].ok
    THEN [done |-> TRUE,
          out |-> Outcome("RuntimeError", "record", NoXml, TRUE,
                          Append(examined, <<ci, ri>>))]
    ELSE IF records[ri].event_record_id # record_id
    THEN scan_records(c, records, ci, ri + 1, record_id, template_instance_index,
                      template_guid, Append(examined, <<ci, ri>>))
    ELSE LET selected(r) ==
                 [done |-> TRUE,
                  out |-> Outcome(r.status, r.err, r.xml, TRUE,
                                  Append(examined, <<ci, ri>>))]
         IN  selected(select_record(c, records[ri], template_instance_index,
                                    template_guid))

\* the chunk loop (lines 266-313) from chunk ci on
RECURSIVE scan_chunks(_, _, _, _, _, _, _)
scan_chunks(c, chunks, ci, record_id, template_instance_index, template_guid, examined) ==
    IF ci > Len(chunks)
    THEN Outcome("ValueError", "Record not found", NoXml, TRUE, examined)
    ELSE IF ~chunks[ci].read_ok
    THEN Outcome("RuntimeError", "chunk", NoXml, TRUE, Append(examined, <<ci, 0>>))
    ELSE IF ~chunks[ci].parse_ok
    THEN Outcome("RuntimeError", "FailedToParseChunk", NoXml, TRUE,
                 Append(examined, <<ci, 0>>))
    ELSE LET scanned(r) ==
                 IF r.done THEN r.out
                 ELSE scan_chunks(c, chunks, ci + 1, record_id,
                                  template_instance_index, template_guid,
                                  r.out.examined)
         IN  scanned(scan_records(c, chunks[ci].records, ci, 1, record_id,
                                  template_instance_index, template_guid,
                                  Append(examined, <<ci, 0>>)))

\* the template GUID render_record_xml works with (lines 226-245)
resolve_selector(c, template_guid, provider_guid, event_id, version) ==
    IF template_guid.some
    THEN [status |-> "ok", err |-> "", guid |-> normalize_guid(template_guid.v)]
    ELSE IF provider_guid.some /\ event_id.some /\ version.some
    THEN LET key == <<normalize_guid(provider_guid.v), event_id.v, version.v>>
         IN  IF key \in DOMAIN c.event_to_template_guid
             THEN [status |-> "ok", err |-> "", guid |-> c.event_to_template_guid[key]]
             ELSE [status |-> "KeyError", err |-> "No template_guid found",
                   guid |-> NoText]
    ELSE [status |-> "ValueError", err |-> "Must provide template_guid",
          guid |-> NoText]

\* the source is opened and scanned (lines 248-313)
open_and_scan(c, source, record_id, template_instance_index, template_guid) ==
    IF source.kind = "other"
    THEN Outcome("TypeError", "from_pyobject", NoXml, FALSE, <<>>)
    ELSE IF source.kind = "path" /\ ~source.exists
    THEN Outcome(py_err_from_io_err("NotFound"), "File::open", NoXml, TRUE, <<>>)
    ELSE IF ~source.header_ok
    THEN Outcome("RuntimeError", "from_read_seek", NoXml, TRUE, <<>>)
    ELSE scan_chunks(c, source.chunks, 1, record_id, template_instance_index,
                     template_guid, <<>>)

\* PyWevtCache::render_record_xml
render_record_xml(c, source, record_id, template_instance_index, template_guid, provider_guid, event_id, version, ansi_codec) ==
    IF resolve_ansi_codec(ansi_codec) # "ok"
    THEN Outcome("ValueError", "Unknown encoding", NoXml, FALSE, <<>>)
    ELSE LET resolved(g) ==
                 IF g.status # "ok" THEN Outcome(g.status, g.err, NoXml, FALSE, <<>>)
                 ELSE open_and_scan(c, source, record_id, template_instance_index,
                                    g.guid)
         IN  resolved(resolve_selector(c, template_guid, provider_guid, event_id,
                                       version))

(***************************************************************************)
(* The parser and the cache it is given (parser.rs, wevt_cache_from_pyobject). *)
(***************************************************************************)
\* wevt_cache_from_pyobject: a path gives a cache of its own, built from the
\* file; a WevtCache instance gives the instance's inner cache itself (shared)
wevt_cache_from_pyobject(obj, d, umax) ==
    IF obj.kind = "path"
    THEN IF ~is_wevtcache_path(obj.path)
         THEN [status |-> "ValueError", shared |-> FALSE, own |-> EmptyMap]
         ELSE LET built(r) == [status |-> r.status, shared |-> FALSE,
                               own |-> IF r.status = "ok" THEN r.c.inner ELSE EmptyMap]
              IN  built(load_wevtcache_file(new, d, obj.path, umax))
    ELSE IF obj.kind = "instance"
    THEN [status |-> "ok", shared |-> TRUE, own |-> EmptyMap]
    ELSE [status |-> "TypeError", shared |-> FALSE, own |-> EmptyMap]

\* PyEvtxParser::new: the parser holds no cache, a cache of its own, or the
\* inner cache of the instance
PyEvtxParser_new(path_or_file_like, ansi_codec, wevt_cache, d, umax) ==
    IF path_or_file_like.kind = "other" THEN [status |-> "TypeError", parser |-> None]
    ELSE IF resolve_ansi_codec(ansi_codec) # "ok"
    THEN [status |-> "ValueError", parser |-> None]
    ELSE LET configured(cache) ==
                 IF cache.status # "ok" THEN [status |-> cache.status, parser |-> None]
                 ELSE IF path_or_file_like.kind = "path" /\ ~path_or_file_like.exists
                 THEN [status |-> py_err_from_io_err("NotFound"), parser |-> None]
                 ELSE IF ~path_or_file_like.header_ok
                 THEN [status |-> "RuntimeError", parser |-> None]
                 ELSE [status |-> "ok",
                       parser |-> Some([inner |-> Some(path_or_file_like.chunks),
                                        has_cache |-> cache.has_cache,
                                        shared |-> cache.shared, own |-> cache.own])]
         IN  IF wevt_cache.some
             THEN configured([has_cache |-> TRUE]
                                 @@ wevt_cache_from_pyobject(wevt_cache.v, d, umax))
             ELSE configured([status |-> "ok", has_cache |-> FALSE, shared |-> FALSE,
                              own |-> EmptyMap])

(***************************************************************************)
(* Manifest introspection (wevt_manifest.rs).                              *)
(***************************************************************************)
\* the offset index PyWevtManifest::parse builds for a provider: the pairs
\* (offset, position) are collected into a map in the order of the templates,
\* so of two templates at one offset the later one stays
RECURSIVE template_index_by_offset(_, _)
template_index_by_offset(templates, i) ==
    IF i = 0 THEN EmptyMap
    ELSE MapInsert(template_index_by_offset(templates, i - 1), templates[i].offset, i)

\* PyWevtManifest::parse: the owned manifest, its buffer cut to the CRIM size
PyWevtManifest_parse(crim_blob) ==
    LET parsed == CrimManifest_parse(crim_blob)
    IN  IF ~parsed.parse_ok THEN [status |-> "ValueError", inner |-> None]
        ELSE [status |-> "ok",
              inner |-> Some([data |-> SubSeq(crim_blob, 1, parsed.size),
                              providers |->
                                  [pi \in 1..Len(parsed.providers) |->
                                      [guid |-> parsed.providers[pi].guid,
                                       events |-> parsed.providers[pi].events,
                                       templates |-> parsed.providers[pi].templates,
                                       template_index_by_offset |->
                                           template_index_by_offset(
                                               parsed.providers[pi].templates,
                                               Len(parsed.providers[pi].templates))]]])]

\* get_template_by_offset that takes the offset for a position in the list
get_template_by_offset_as_index(m, provider_index, offset) ==
    IF offset + 1 \in 1..Len(m.providers[provider_index].templates)
    THEN Some([provider_index |-> provider_index, template_index |-> offset + 1])
    ELSE None

\* PyWevtProvider::get_template_by_offset: the Template object (provider and
\* position of the template) or None
get_template_by_offset(m, provider_index, offset) ==
    IF offset \in DOMAIN m.providers[provider_index].template_index_by_offset
    THEN Some([provider_index |-> provider_index,
               template_index |->
                   m.providers[provider_index].template_index_by_offset[offset]])
    ELSE None

\* PyWevtTemplate::to_xml of template template_index of provider provider_index
to_xml(m, provider_index, template_index, ansi_codec, umax) ==
    IF resolve_ansi_codec(ansi_codec) # "ok" THEN [status |-> "ValueError", xml |-> NoXml]
    ELSE LET tpl == m.providers[provider_index].templates[template_index]
             start == tpl.offset
             end == saturating_add(start, tpl.size, umax)
         IN  IF end > Len(m.data) THEN [status |-> "RuntimeError", xml |-> NoXml]
             ELSE IF start > end THEN [status |-> "panic", xml |-> NoXml]
             ELSE render_temp_to_xml(SubSeq(m.data, start + 1, end))

(***************************************************************************)
(* The state.                                                              *)
(***************************************************************************)
VARIABLES
    event_to_template_guid,  \* PyWevtCache.event_to_template_guid
    temps_by_guid,           \* PyWevtCache.temps_by_guid
    resources,               \* PyWevtCache.resources
    inner,                   \* the templates of PyWevtCache.inner
    disk,                    \* the cache files: path -> Option<file>
    manifest,                \* the ManifestInner of the Manifest object, if one was parsed
    usize_max,               \* usize::MAX of the build target
    parser,                  \* the PyEvtxParser object, if one was constructed
    iterator,                \* the PyRecordsIterator object, if one was returned
    lastOp                   \* the last call: its name, arguments and outcome

vars == <<event_to_template_guid, temps_by_guid, resources, inner, disk,
          manifest, usize_max, parser, iterator, lastOp>>

cache_vars == <<event_to_template_guid, temps_by_guid, resources, inner>>

\* the cache the program works on, as a value
self == Cache(event_to_template_guid, temps_by_guid, resources, inner)

\* the cache the program works on becomes c
SetCache(c) ==
    /\ event_to_template_guid' = c.event_to_template_guid
    /\ temps_by_guid' = c.temps_by_guid
    /\ resources' = c.resources
    /\ inner' = c.inner

\* the record of a call
Op(name, arg, status, count, files, guid, xml) ==
    [op |-> name, arg |-> arg, status |-> status, count |-> count,
     files |-> files, guid |-> guid, xml |-> xml]

(***************************************************************************)
(* The arguments the calls are made with.                                  *)
(***************************************************************************)
\* paths given to add_dll: every binary, a missing path and a directory
DllPaths ==
    {<<n_good, n_a_dll>>, <<n_good, n_b_DLL>>, <<n_good, n_c_txt>>,
     <<n_good, n_sub, n_d_sys>>, <<n_bad, n_a_dll>>, <<n_bad, n_b_dll>>,
     <<n_oob, n_b_exe>>, <<n_e_dll>>, <<n_t_dll>>, <<n_x_dll>>,
     <<n_gone>>, <<n_good>>}

\* paths given to add_dir: directories, a missing path and a single file
DirPaths == {<<n_good>>, <<n_bad>>, <<n_oob>>, <<n_gone>>, <<n_good, n_c_txt>>}

\* paths given to add_dir where the traversal is studied: also a directory with
\* two names of one file and a directory with a subdirectory that cannot be listed
WalkPaths == DirPaths \cup {<<n_dup>>, <<n_deny>>}

\* extensions arguments: the default, "dll" and " .DLL,txt"
ExtensionArgs ==
    {None, Some(<<"d", "l", "l">>),
     Some(<<" ", ".", "D", "L", "L", ",", "t", "x", "t">>)}

\* textual GUIDs given to the lookups
GuidTexts ==
    {<<"a">>, <<"A">>, <<"{", "a", "}">>, <<"{", "A", "}">>,
     <<"b">>, <<"B">>, <<"{", "B", "}">>, <<"c">>}

EventIds == {1, 2}
Versions == {0, 1}
\* substitutions given where the lookups are studied
ValueLists == {PyList(<<>>), PyList(<<Py("str", FALSE, 0, "hello", TRUE, "hello")>>)}
CodecArgs == {None, Some("utf-8"), Some("bogus")}

\* the Python objects given as substitution values: None, the bools, ints at
\* and beyond the limits of i64, u64 and f64, a float, a str, a bytes, and
\* objects of another class whose __str__ returns a text or raises
PyObjects ==
    {Py("NoneType", FALSE, 0, "", TRUE, "None"),
     Py("bool", TRUE, 1, "", TRUE, "True"),
     Py("bool", FALSE, 0, "", TRUE, "False"),
     Py("int", FALSE, 1, "", TRUE, "1"),
     Py("int", FALSE, I64Min, "", TRUE, "i64::MIN"),
     Py("int", FALSE, I64Max, "", TRUE, "i64::MAX"),
     Py("int", FALSE, I64Max + 1, "", TRUE, "i64::MAX+1"),
     Py("int", FALSE, U64Max + 1, "", TRUE, "u64::MAX+1"),
     Py("int", FALSE, I64Min - 1, "", TRUE, "i64::MIN-1"),
     Py("int", FALSE, F64Max + 1, "", TRUE, "f64::MAX+1"),
     Py("float", FALSE, 2, "", TRUE, "2.0"),
     Py("str", FALSE, 0, "hello", TRUE, "hello"),
     Py("bytes", FALSE, 0, "raw", TRUE, "b'raw'"),
     Py("object", FALSE, 0, "", TRUE, "<obj>"),
     Py("object", FALSE, 0, "", FALSE, "")}

\* the substitutions arguments where the conversion is studied: every list of
\* at most MaxValues objects, and an object that is no sequence
MaxValues == 2
SubstitutionArgs ==
    {PyList(items) : items \in UNION {[1..n -> PyObjects] : n \in 0..MaxValues}}
        \cup {PyNotASequence}

\* the record sources given to render_record_xml; the values of an instance are
\* texts
EvtxSources ==
    LET V(t) == <<AnsiStringType(t)>>
        R(id, instances) == EvtxRecord(TRUE, id, TRUE, instances, TRUE)
        Good(records) == EvtxChunk(TRUE, TRUE, records)
    IN  {\* record 1 with two instances; record 2 three times: with one instance,
         \* with two, and in the next chunk
         [name |-> "dup"] @@
             EvtxSource("path", TRUE, TRUE,
                        <<Good(<<R(1, <<V("a"), V("b")>>), R(2, <<V("x")>>),
                                 R(2, <<V("p"), V("q")>>)>>),
                          Good(<<R(2, <<V("z")>>)>>)>>),
         \* a record that fails to parse between record 1 and record 2
         [name |-> "bad_record"] @@
             EvtxSource("path", TRUE, TRUE,
                        <<Good(<<R(1, <<V("a")>>), EvtxRecord(FALSE, 0, FALSE, <<>>, FALSE),
                                 R(2, <<V("x"), V("y")>>)>>)>>),
         \* a chunk that cannot be read between the chunks of record 1 and record 2
         [name |-> "bad_chunk"] @@
             EvtxSource("file_like", TRUE, TRUE,
                        <<Good(<<R(1, <<V("a")>>)>>), EvtxChunk(FALSE, FALSE, <<>>),
                          Good(<<R(2, <<V("x")>>)>>)>>),
         \* a first chunk that does not parse
         [name |-> "bad_parse"] @@
             EvtxSource("file_like", TRUE, TRUE,
                        <<EvtxChunk(TRUE, FALSE, <<>>), Good(<<R(1, <<V("a")>>)>>)>>),
         \* record 1 twice: first with instances that cannot be read
         [name |-> "bad_instances"] @@
             EvtxSource("path", TRUE, TRUE,
                        <<Good(<<EvtxRecord(TRUE, 1, FALSE, <<>>, TRUE), R(1, <<V("a")>>)>>)>>),
         \* a path that does not exist
         [name |-> "missing"] @@ EvtxSource("path", FALSE, FALSE, <<>>),
         \* a file whose header is not that of an event log
         [name |-> "bad_header"] @@
             EvtxSource("path", TRUE, FALSE, <<Good(<<R(1, <<V("a")>>)>>)>>),
         \* an object that is no path and cannot be read
         [name |-> "other"] @@ EvtxSource("other", FALSE, FALSE, <<>>)}

\* the wevt_cache arguments given to the parser: none, the cache instance,
\* cache files, a path that is no cache file, another object
WevtCacheArgs ==
    {None, Some([kind |-> "instance", path |-> <<>>]),
     Some([kind |-> "path", path |-> <<n_o_wevtcache>>]),
     Some([kind |-> "path", path |-> <<n_m_wevtcache>>]),
     Some([kind |-> "path", path |-> <<n_c_bin>>]),
     Some([kind |-> "other", path |-> <<>>])}

RecordIds == {1, 2, 3}
InstanceIndexes == {0, 1}

\* the template selectors given to render_record_xml
Selectors ==
    LET Sel(g, p, e, v) ==
            [template_guid |-> g, provider_guid |-> p, event_id |-> e, version |-> v]
    IN  {Sel(Some(<<"{", "A", "}">>), None, None, None),
         Sel(Some(<<"c">>), None, None, None),
         Sel(Some(<<"a">>), Some(<<"A">>), Some(1), Some(0)),
         Sel(None, Some(<<"{", "A", "}">>), Some(1), Some(0)),
         Sel(None, Some(<<"B">>), Some(2), Some(0)),
         Sel(None, Some(<<"A">>), Some(1), None),
         Sel(None, None, None, None)}

(***************************************************************************)
(* Init: a new cache, the initial disk, no manifest.                       *)
(***************************************************************************)
Init ==
    /\ event_to_template_guid = new.event_to_template_guid
    /\ temps_by_guid = new.temps_by_guid
    /\ resources = new.resources
    /\ inner = new.inner
    /\ disk = InitialDisk
    /\ manifest = None
    /\ usize_max \in {UsizeMax32, UsizeMax64}
    /\ parser = None
    /\ iterator = None
    /\ lastOp = Op("new", [none |-> TRUE], "ok", 0, <<>>, NoText, NoXml)

(***************************************************************************)
(* The calls.                                                              *)
(***************************************************************************)
AddDll(path) ==
    /\ Len(resources) < MaxResources
    /\ LET returns(r) ==
               /\ SetCache(r.c)
               /\ lastOp' = Op("add_dll", [path |-> path], r.status,
                               IF r.status = "ok" THEN r.count ELSE 0,
                               <<path>>, NoText, NoXml)
       IN  returns(add_dll(self, path, usize_max))
    /\ UNCHANGED <<disk, manifest, usize_max, parser, iterator>>

AddDir(path, recursive, extensions, rev) ==
    /\ Len(resources) < MaxResources
    /\ LET returns(r, collected) ==
               /\ SetCache(r.c)
               /\ lastOp' = Op("add_dir",
                               [path |-> path, recursive |-> recursive,
                                extensions |-> extensions, rev |-> rev],
                               r.status, IF r.status = "ok" THEN r.count ELSE 0,
                               IF collected.status = "ok" THEN sort(collected.out_files)
                               ELSE <<>>,
                               NoText, NoXml)
       IN  returns(add_dir(self, path, recursive, extensions, rev, usize_max),
                   collect_input_paths(path, recursive, allowed_exts_of(extensions), rev))
    /\ UNCHANGED <<disk, manifest, usize_max, parser, iterator>>

\* dump that moves the resources out of the cache while it writes them
Dump_draining(path, overwrite) ==
    /\ LET r == dump(self, disk, path, overwrite)
       IN  /\ disk' = r.disk
           /\ lastOp' = [err |-> r.err]
                             @@ Op("dump", [path |-> path, overwrite |-> overwrite],
                                   r.status, 0, <<>>, NoText, NoXml)
    /\ resources' = <<>>
    /\ UNCHANGED <<event_to_template_guid, temps_by_guid, inner, manifest, usize_max, parser, iterator>>

Dump(path, overwrite) ==
    /\ LET r == dump(self, disk, path, overwrite)
       IN  /\ disk' = r.disk
           /\ lastOp' = [err |-> r.err]
                             @@ Op("dump", [path |-> path, overwrite |-> overwrite],
                                   r.status, 0, <<>>, NoText, NoXml)
    /\ UNCHANGED <<cache_vars, manifest, usize_max, parser, iterator>>

\* c = WevtCache.load(path): on success the program goes on with the loaded
\* cache, on failure it keeps the cache it had
Load(path) ==
    /\ LET returns(r) ==
               /\ IF r.status = "ok" THEN SetCache(r.c) ELSE UNCHANGED cache_vars
               /\ lastOp' = Op("load", [path |-> path], r.status, 0, <<>>, NoText, NoXml)
       IN  returns(load(disk, path, usize_max))
    /\ UNCHANGED <<disk, manifest, usize_max, parser, iterator>>

ResolveTemplateGuid(provider_guid, event_id, version) ==
    /\ LET r == resolve_template_guid(self, provider_guid, event_id, version)
       IN  lastOp' = Op("resolve_template_guid",
                        [provider_guid |-> provider_guid, event_id |-> event_id,
                         version |-> version],
                        r.status, 0, <<>>, r.guid, NoXml)
    /\ UNCHANGED <<cache_vars, disk, manifest, usize_max, parser, iterator>>

RenderTemplateXml(template_guid, substitutions, ansi_codec) ==
    /\ LET returns(r) ==
               lastOp' = Op("render_template_xml",
                            [template_guid |-> template_guid,
                             substitutions |-> substitutions, ansi_codec |-> ansi_codec],
                            r.status, 0, <<>>, NoText, r.xml)
       IN  returns(render_template_xml(self, template_guid, substitutions, ansi_codec))
    /\ UNCHANGED <<cache_vars, disk, manifest, usize_max, parser, iterator>>

RenderRecordXml(source, record_id, template_instance_index, sel, ansi_codec) ==
    /\ LET returns(r) ==
               lastOp' = [op |-> "render_record_xml",
                          arg |-> [source |-> source, record_id |-> record_id,
                                   template_instance_index |-> template_instance_index,
                                   sel |-> sel, ansi_codec |-> ansi_codec],
                          status |-> r.status, count |-> 0, files |-> <<>>,
                          guid |-> NoText, xml |-> r.xml, err |-> r.err,
                          opened |-> r.opened, examined |-> r.examined]
       IN  returns(render_record_xml(self, source, record_id, template_instance_index,
                                     sel.template_guid, sel.provider_guid,
                                     sel.event_id, sel.version, ansi_codec))
    /\ UNCHANGED <<cache_vars, disk, manifest, usize_max, parser, iterator>>

\* manifest.providers[provider_index].get_template_by_offset(offset)
GetTemplateByOffset(provider_index, offset) ==
    /\ manifest.some
    /\ provider_index \in 1..Len(manifest.v.providers)
    /\ lastOp' = [op |-> "Provider.get_template_by_offset",
                  arg |-> [provider_index |-> provider_index, offset |-> offset],
                  status |-> "ok", count |-> 0, files |-> <<>>, guid |-> NoText,
                  xml |-> NoXml,
                  result |-> get_template_by_offset(manifest.v, provider_index, offset)]
    /\ UNCHANGED <<cache_vars, disk, manifest, usize_max, parser, iterator>>

\* binxml_values_from_py_list applied to the substitutions at hand
ConvertValues ==
    /\ lastOp.op = "substitutions"
    /\ LET returns(r) ==
               lastOp' = [op |-> "binxml_values_from_py_list", arg |-> lastOp.arg,
                          status |-> r.status, count |-> 0, files |-> <<>>,
                          guid |-> NoText, xml |-> NoXml, values |-> r.values]
       IN  returns(binxml_values_from_py_list(lastOp.arg.substitutions))
    /\ UNCHANGED <<cache_vars, disk, manifest, usize_max, parser, iterator>>

\* p = PyEvtxParser(path_or_file_like, ansi_codec=..., wevt_cache=...): on
\* failure the program keeps the parser it had
\* used is history: whether a call of records(), records_json() or __iter__
\* on the parser has succeeded
NewParser(path_or_file_like, ansi_codec, wevt_cache) ==
    /\ LET returns(r) ==
               /\ parser' = IF r.status = "ok" THEN Some(r.parser.v @@ [used |-> FALSE])
                             ELSE parser
               /\ lastOp' = Op("PyEvtxParser",
                               [path_or_file_like |-> path_or_file_like,
                                ansi_codec |-> ansi_codec, wevt_cache |-> wevt_cache],
                               r.status, 0, <<>>, NoText, NoXml)
       IN  returns(PyEvtxParser_new(path_or_file_like, ansi_codec, wevt_cache, disk,
                                    usize_max))
    /\ UNCHANGED <<cache_vars, disk, manifest, usize_max, iterator>>

ManifestParse(crim_blob) ==
    /\ LET r == PyWevtManifest_parse(crim_blob)
       IN  /\ manifest' = IF r.status = "ok" THEN r.inner ELSE manifest
           /\ lastOp' = Op("Manifest.parse", [crim_blob |-> crim_blob],
                           r.status, 0, <<>>, NoText, NoXml)
    /\ UNCHANGED <<cache_vars, disk, usize_max, parser, iterator>>

ToXml(provider_index, template_index, ansi_codec) ==
    /\ manifest.some
    /\ provider_index \in 1..Len(manifest.v.providers)
    /\ template_index \in 1..Len(manifest.v.providers[provider_index].templates)
    /\ LET r == to_xml(manifest.v, provider_index, template_index, ansi_codec, usize_max)
       IN  lastOp' = Op("Template.to_xml",
                        [provider_index |-> provider_index,
                         template_index |-> template_index, ansi_codec |-> ansi_codec],
                        r.status, 0, <<>>, NoText, r.xml)
    /\ UNCHANGED <<cache_vars, disk, manifest, usize_max, parser, iterator>>

(***************************************************************************)
(* Specifications.                                                         *)
(***************************************************************************)
\* ingestion: binaries, directories and the cache files that exist already
Next ==
    \/ \E path \in DllPaths : AddDll(path)
    \/ \E path \in DirPaths, recursive \in BOOLEAN : AddDir(path, recursive, None, FALSE)
    \/ \E path \in CachePaths : Load(path)

Spec == Init /\ [][Next]_vars

\* the binaries ingested where persistence or lookups are studied
FewDllPaths == {<<n_good, n_a_dll>>, <<n_good, n_b_DLL>>, <<n_oob, n_b_exe>>, <<n_e_dll>>}

\* the dump calls made: a fresh path, an existing path, a path that is no cache file
DumpArgs ==
    {<<<<n_c_wevtcache>>, FALSE>>, <<<<n_c_wevtcache>>, TRUE>>,
     <<<<n_o_wevtcache>>, FALSE>>, <<<<n_c_bin>>, TRUE>>,
     <<<<n_x_WEVTCACHE>>, FALSE>>, <<<<n_x_WEVTCACHE>>, TRUE>>}

\* ingestion and persistence
NextPersist ==
    \/ \E path \in FewDllPaths : AddDll(path)
    \/ \E a \in DumpArgs : Dump(a[1], a[2])
    \/ \E path \in CachePaths : Load(path)

SpecPersist == Init /\ [][NextPersist]_vars

\* add_dir with every recursive flag, extensions argument and listing order
NextDir ==
    \/ \E path \in WalkPaths, recursive \in BOOLEAN, extensions \in ExtensionArgs,
          rev \in BOOLEAN : AddDir(path, recursive, extensions, rev)

SpecDir == Init /\ [][NextDir]_vars

\* ingestion and lookups
NextRead ==
    \/ \E path \in FewDllPaths \cup {<<n_good, n_c_txt>>} : AddDll(path)
    \/ \E g \in GuidTexts, id \in EventIds, v \in Versions : ResolveTemplateGuid(g, id, v)
    \/ \E g \in GuidTexts, vs \in ValueLists, codec \in CodecArgs :
          RenderTemplateXml(g, vs, codec)

SpecRead == Init /\ [][NextRead]_vars

\* the binaries ingested where the rendering of records is studied
RecordDllPaths == {<<n_good, n_a_dll>>, <<n_good, n_b_DLL>>}

\* ingestion and rendering of records; an unknown codec is given in one call
NextRecord ==
    \/ \E path \in RecordDllPaths : AddDll(path)
    \/ \E source \in EvtxSources, id \in RecordIds, idx \in InstanceIndexes,
          sel \in Selectors, codec \in {None, Some("bogus")} :
          /\ codec.some => (source.name = "missing" /\ id = 1 /\ idx = 0)
          /\ RenderRecordXml(source, id, idx, sel, codec)

SpecRecord == Init /\ [][NextRecord]_vars

\* ingestion and every call that only reads the cache
NextReadOnly ==
    \/ \E path \in RecordDllPaths : AddDll(path)
    \/ \E g \in {<<"{", "A", "}">>, <<"c">>}, v \in Versions : ResolveTemplateGuid(g, 1, v)
    \/ \E g \in {<<"{", "A", "}">>, <<"c">>}, vs \in ValueLists,
          codec \in {None, Some("bogus")} : RenderTemplateXml(g, vs, codec)
    \/ \E source \in EvtxSources, sel \in Selectors :
          RenderRecordXml(source, 1, 0, sel, None)
    \/ \E a \in DumpArgs : Dump(a[1], a[2])

SpecReadOnly == Init /\ [][NextReadOnly]_vars

\* ingestion into a cache that parsers are constructed with
NextParser ==
    \/ \E path \in RecordDllPaths : AddDll(path)
    \/ AddDir(<<n_good>>, FALSE, None, FALSE)
    \/ \E source \in {x \in EvtxSources : x.name \in {"dup", "missing", "bad_header", "other"}},
          codec \in {None, Some("bogus")}, wevt_cache \in WevtCacheArgs :
          NewParser(source, codec, wevt_cache)

SpecParser == Init /\ [][NextParser]_vars

\* ingestion and manifest introspection
NextManifest ==
    \/ \E path \in DllPaths : AddDll(path)
    \/ \E b \in CrimBlobs : ManifestParse(b.data)
    \/ \E pi \in 1..2, ti \in 1..3, codec \in CodecArgs : ToXml(pi, ti, codec)

SpecManifest == Init /\ [][NextManifest]_vars

\* the conversion of the substitutions, applied to every argument
InitValues ==
    /\ event_to_template_guid = new.event_to_template_guid
    /\ temps_by_guid = new.temps_by_guid
    /\ resources = new.resources
    /\ inner = new.inner
    /\ disk = InitialDisk
    /\ manifest = None
    /\ usize_max = UsizeMax64
    /\ parser = None
    /\ iterator = None
    /\ lastOp \in {Op("substitutions", [substitutions |-> substitutions], "ok", 0,
                      <<>>, NoText, NoXml) : substitutions \in SubstitutionArgs}

NextValues == ConvertValues

SpecValues == InitValues /\ [][NextValues]_vars

\* manifest introspection: the providers' templates looked up by offset
NextProvider ==
    \/ \E b \in CrimBlobs : ManifestParse(b.data)
    \/ \E pi \in 1..2, offset \in 0..U32Max : GetTemplateByOffset(pi, offset)

SpecProvider == Init /\ [][NextProvider]_vars

(***************************************************************************)
(* What a blob says, read off its manifest without running the ingestion.  *)
(***************************************************************************)
\* the canonical key form of a binary GUID
KeyOfGuid(g) == normalize_guid(Guid_to_string(g))

\* every template of the blob lies inside the blob (exact arithmetic)
InBounds(data, tpl) == tpl.offset + tpl.size <= Len(data)

\* the raw blobs
BlobData == DOMAIN ManifestOf

\* the blob parses and all its templates are in bounds: its ingest succeeds
WellFormedOf ==
    [data \in BlobData |->
        LET m == CrimManifest_parse(data)
        IN  /\ m.parse_ok
            /\ \A pi \in 1..Len(m.providers) :
                   \A ti \in 1..Len(m.providers[pi].templates) :
                       InBounds(data, m.providers[pi].templates[ti])]

WellFormed(data) == WellFormedOf[data]

\* the positions <<provider, template>> of the templates of a blob
TemplatePositions(data) ==
    LET m == CrimManifest_parse(data)
    IN  UNION {{<<pi, ti>> : ti \in 1..Len(m.providers[pi].templates)} :
                  pi \in 1..Len(m.providers)}

\* the positions <<provider, event>> of the events of a blob
EventPositions(data) ==
    LET m == CrimManifest_parse(data)
    IN  UNION {{<<pi, ei>> : ei \in 1..Len(m.providers[pi].events)} :
                  pi \in 1..Len(m.providers)}

\* position p comes before position q in provider order, then entry order
Before(p, q) == p[1] < q[1] \/ (p[1] = q[1] /\ p[2] < q[2])

\* the last position of a non-empty set of positions
LastPosition(S) == CHOOSE p \in S : \A q \in S \ {p} : Before(q, p)

TemplateAt(data, pos) == CrimManifest_parse(data).providers[pos[1]].templates[pos[2]]
EventAt(data, pos) == CrimManifest_parse(data).providers[pos[1]].events[pos[2]]
ProviderAt(data, pos) == CrimManifest_parse(data).providers[pos[1]]

\* the template entries of the blob that carry GUID g (canonical form)
TemplatesWithGuid(data, g) ==
    {pos \in TemplatePositions(data) : KeyOfGuid(TemplateAt(data, pos).guid) = g}

\* the bytes of the range of a template
RangeBytes(data, tpl) == SubSeq(data, tpl.offset + 1, tpl.offset + tpl.size)

\* the templates of the provider of an event that sit at the event's offset
TemplatesOfEvent(data, pos) ==
    LET e == EventAt(data, pos)
        ts == ProviderAt(data, pos).templates
    IN  IF ~e.template_offset.some THEN {}
        ELSE {ts[i] : i \in {j \in 1..Len(ts) : ts[j].offset = e.template_offset.v}}

\* the key (provider, event id, version) of an event
KeyOfEvent(data, pos) ==
    <<KeyOfGuid(ProviderAt(data, pos).guid), EventAt(data, pos).identifier,
      EventAt(data, pos).version>>

\* all keys an event map can have
AllGuidKeys == {KeyOfGuid(g) : g \in Guids} \cup {normalize_guid(t) : t \in GuidTexts}
AllKeys == AllGuidKeys \X (EventIds \cup {3}) \X Versions

\* the events of the blob that define key k: they have that key and a
\* template offset at which their provider has a template
EventsDefiningOf ==
    [data \in BlobData |->
        [k \in AllKeys |->
            IF ~CrimManifest_parse(data).parse_ok THEN {}
            ELSE {pos \in EventPositions(data) :
                     KeyOfEvent(data, pos) = k /\ TemplatesOfEvent(data, pos) # {}}]]

EventsDefining(data, k) == EventsDefiningOf[data][k]

\* the resources of every blob list are well-formed
AllWellFormed(res) == \A i \in 1..Len(res) : WellFormed(res[i])

(***************************************************************************)
(* C1  Round trip: dump(path) followed by load(path) succeeds and gives a  *)
(* cache with the same resolve result for every key and the same template  *)
(* bytes for every template GUID of the dumped cache.                      *)
(***************************************************************************)
C1_RoundTrip ==
    [][(/\ lastOp.op = "dump" /\ lastOp.status = "ok"
        /\ lastOp'.op = "load" /\ lastOp'.arg.path = lastOp.arg.path)
       => /\ lastOp'.status = "ok"
          /\ \A k \in DOMAIN event_to_template_guid :
                /\ k \in DOMAIN event_to_template_guid'
                /\ event_to_template_guid'[k] = event_to_template_guid[k]
          /\ \A g \in DOMAIN temps_by_guid :
                /\ g \in DOMAIN temps_by_guid'
                /\ temps_by_guid'[g] = temps_by_guid[g]]_vars

(***************************************************************************)
(* C2  In every reachable state, ingesting the blobs of resources, in      *)
(* order, into an empty cache succeeds and gives the same event map and    *)
(* the same template-bytes map.                                            *)
(***************************************************************************)
C2_ResourcesReproduceIndex ==
    LET r == add_resources(new, resources, 1, 0, usize_max)
    IN  /\ r.status = "ok"
        /\ r.c.event_to_template_guid = event_to_template_guid
        /\ r.c.temps_by_guid = temps_by_guid

(***************************************************************************)
(* C3  Last write wins for template bytes: when every retained blob was    *)
(* ingested successfully, the bytes stored for GUID G are the bytes of the *)
(* range of the last template entry with GUID G (provider order, then      *)
(* template order) in the last retained blob that has such an entry, and   *)
(* a GUID is stored exactly when some retained blob has an entry for it.   *)
(***************************************************************************)
BlobsWithGuid(res, g) == {i \in 1..Len(res) : TemplatesWithGuid(res[i], g) # {}}

LastBytesOf(res, g) ==
    LET i == CHOOSE x \in BlobsWithGuid(res, g) : \A y \in BlobsWithGuid(res, g) : y <= x
    IN  RangeBytes(res[i], TemplateAt(res[i], LastPosition(TemplatesWithGuid(res[i], g))))

C3_LastWriteWinsTemplates ==
    AllWellFormed(resources) =>
        /\ DOMAIN temps_by_guid = {g \in AllGuidKeys : BlobsWithGuid(resources, g) # {}}
        /\ \A g \in DOMAIN temps_by_guid : temps_by_guid[g] = LastBytesOf(resources, g)

\* two retained blobs define the same GUID with different bytes, and the
\* bytes of the later one are stored
C3_Witness ==
    /\ AllWellFormed(resources)
    /\ lastOp.op \in {"add_dll", "add_dir"} /\ lastOp.status = "ok"
    /\ \E g \in DOMAIN temps_by_guid :
          \E i, j \in BlobsWithGuid(resources, g) :
              /\ i < j
              /\ \A y \in BlobsWithGuid(resources, g) : y <= j
              /\ \E p \in TemplatesWithGuid(resources[i], g) :
                    RangeBytes(resources[i], TemplateAt(resources[i], p)) # temps_by_guid[g]
              /\ temps_by_guid[g] = LastBytesOf(resources, g)

(***************************************************************************)
(* The blobs a call is given: the resources of the binaries it selected,   *)
(* in ingestion order, or the payloads of the entries of the loaded file.  *)
(***************************************************************************)
\* the paths of the file system, and the paths the calls are given
RECURSIVE paths_under(_, _)
paths_under(node, prefix) ==
    IF Len(prefix) >= MaxPathLen THEN {prefix}
    ELSE {prefix}
             \cup UNION {paths_under(e[2], Append(prefix, e[1])) : e \in Fs[node].entries}

KnownPaths == paths_under("root", <<>>) \cup DllPaths \cup DirPaths

\* the resources of a binary that can be read and extracted
FileBlobsOf ==
    [path \in KnownPaths |->
        IF is_file(path) /\ Fs[resolve(path).v].readable /\ Fs[resolve(path).v].pe_ok
        THEN Fs[resolve(path).v].resources
        ELSE <<>>]

FileBlobs(path) == FileBlobsOf[path]

RECURSIVE BlobsOfFiles(_, _)
BlobsOfFiles(files, i) ==
    IF i > Len(files) THEN <<>> ELSE FileBlobs(files[i]) \o BlobsOfFiles(files, i + 1)

OpBlobs(op, d) ==
    IF op.op \in {"add_dll", "add_dir"} THEN BlobsOfFiles(op.files, 1)
    ELSE IF op.op = "load" /\ op.arg.path \in DOMAIN d /\ d[op.arg.path].some
    THEN [i \in 1..Len(d[op.arg.path].v.entries) |-> d[op.arg.path].v.entries[i].payload]
    ELSE <<>>

IsIngest(op) == op.op \in {"add_dll", "add_dir"} \/ (op.op = "load" /\ op.status = "ok")

\* the blobs of a list that define key k
BlobsDefining(blobs, k) == {i \in 1..Len(blobs) : EventsDefining(blobs[i], k) # {}}

\* the template GUID that the last defining event of the last defining blob gives k
LastGuidOf(blobs, k) ==
    LET S == BlobsDefining(blobs, k)
        i == CHOOSE x \in S : \A y \in S : y <= x
        pos == LastPosition(EventsDefining(blobs[i], k))
    IN  KeyOfGuid((CHOOSE t \in TemplatesOfEvent(blobs[i], pos) : TRUE).guid)

(***************************************************************************)
(* C4  Last write wins for the event mapping: a successful ingesting call  *)
(* leaves every triple that its blobs define mapped to the template GUID   *)
(* given by the blob ingested last (and by the last such event in it); a   *)
(* call none of whose blobs defines a triple leaves the mapping of that    *)
(* triple as it was, present or absent.  A load starts from an empty map.  *)
(***************************************************************************)
C4_LastWriteWinsEvents ==
    [][IsIngest(lastOp') =>
        LET blobs == OpBlobs(lastOp', disk)
            base == IF lastOp'.op = "load" THEN EmptyMap ELSE event_to_template_guid
        IN  \A k \in AllKeys \cup DOMAIN base \cup DOMAIN event_to_template_guid' :
                IF BlobsDefining(blobs, k) = {}
                THEN /\ (k \in DOMAIN event_to_template_guid') = (k \in DOMAIN base)
                     /\ k \in DOMAIN base => event_to_template_guid'[k] = base[k]
                ELSE lastOp'.status = "ok" =>
                        /\ k \in DOMAIN event_to_template_guid'
                        /\ event_to_template_guid'[k] = LastGuidOf(blobs, k)]_vars

\* a triple mapped by an earlier blob was mapped to another GUID by the blob
\* of the last call
C4_Witness ==
    /\ lastOp.op = "add_dll" /\ lastOp.status = "ok"
    /\ Len(resources) = 2
    /\ \E k \in DOMAIN event_to_template_guid :
          /\ BlobsDefining(resources, k) = {1, 2}
          /\ LastGuidOf(<<resources[1]>>, k) # LastGuidOf(<<resources[2]>>, k)
          /\ event_to_template_guid[k] = LastGuidOf(<<resources[2]>>, k)

(***************************************************************************)
(* C5  GUID normalization: two textual GUIDs that differ only by letter    *)
(* case or by surrounding braces give the same result of                   *)
(* resolve_template_guid for every event id and version, and the same      *)
(* result of render_template_xml for every list of values.                 *)
(***************************************************************************)
\* the pairs of letters that differ by case only
CasePairs == {<<"a", "A">>, <<"b", "B">>, <<"c", "C">>}
SameLetter(x, y) == x = y \/ <<x, y>> \in CasePairs \/ <<y, x>> \in CasePairs

\* the text between the surrounding braces, if it has them
Unbraced(t) ==
    IF Len(t) >= 2 /\ t[1] = "{" /\ t[Len(t)] = "}" THEN SubSeq(t, 2, Len(t) - 1) ELSE t

DifferByCaseOrBraces(t1, t2) ==
    /\ Len(Unbraced(t1)) = Len(Unbraced(t2))
    /\ \A i \in 1..Len(Unbraced(t1)) : SameLetter(Unbraced(t1)[i], Unbraced(t2)[i])

C5_GuidNormalization ==
    \A t1, t2 \in GuidTexts :
        DifferByCaseOrBraces(t1, t2) =>
            /\ \A id \in EventIds, v \in Versions :
                  resolve_template_guid(self, t1, id, v)
                      = resolve_template_guid(self, t2, id, v)
            /\ \A vs \in ValueLists, codec \in CodecArgs :
                  render_template_xml(self, t1, vs, codec)
                      = render_template_xml(self, t2, vs, codec)

\* a lookup with an upper-case GUID in braces found a mapping
C5_Witness ==
    /\ lastOp.op = "resolve_template_guid"
    /\ lastOp.arg.provider_guid = <<"{", "A", "}">>
    /\ lastOp.status = "ok"
    /\ \E t \in GuidTexts :
          /\ t # lastOp.arg.provider_guid
          /\ DifferByCaseOrBraces(t, lastOp.arg.provider_guid)
          /\ resolve_template_guid(self, t, lastOp.arg.event_id, lastOp.arg.version).guid
                = lastOp.guid

(***************************************************************************)
(* C6  resolve_template_guid returns a template GUID exactly when an       *)
(* ingest recorded that exact triple (canonical provider GUID, event id,   *)
(* version), returns a GUID recorded for that triple, and fails with       *)
(* KeyError otherwise; a mapping of another version is never returned.     *)
(* An ingest records the events of every provider it reaches: those before *)
(* the first template that is out of bounds.                               *)
(***************************************************************************)
\* provider pi of the blob is reached by the ingest
Reached(data, pi) ==
    \A pos \in TemplatePositions(data) :
        pos[1] < pi => InBounds(data, TemplateAt(data, pos))

\* the GUIDs recorded for key k by the retained blobs
RecordedGuids(res, k) ==
    UNION {{KeyOfGuid(t.guid) : t \in TemplatesOfEvent(res[i], pos)} :
              <<i, pos>> \in {x \in UNION {{<<j, q>> : q \in EventsDefining(res[j], k)} :
                                              j \in 1..Len(res)} :
                                 Reached(res[x[1]], x[2][1])}}

C6_ResolveExact ==
    \A t \in GuidTexts, id \in EventIds \cup {3}, v \in Versions :
        LET r == resolve_template_guid(self, t, id, v)
            recorded == RecordedGuids(resources, <<normalize_guid(t), id, v>>)
        IN  /\ r.status \in {"ok", "KeyError"}
            /\ (r.status = "ok") = (recorded # {})
            /\ r.status = "ok" => r.guid \in recorded
            /\ r.status = "KeyError" => r.guid = NoText

\* a lookup failed for a version although another version of the same event
\* of the same provider is mapped
C6_Witness ==
    /\ lastOp.op = "resolve_template_guid"
    /\ lastOp.status = "KeyError"
    /\ \E k \in DOMAIN event_to_template_guid :
          /\ k[1] = normalize_guid(lastOp.arg.provider_guid)
          /\ k[2] = lastOp.arg.event_id
          /\ k[3] # lastOp.arg.version

(***************************************************************************)
(* C7  The count an ingesting call returns is the number of template       *)
(* entries of the blobs of that call (saturating at usize::MAX), whatever  *)
(* the cache held before.                                                  *)
(***************************************************************************)
RECURSIVE SumTemplates(_, _)
SumTemplates(blobs, i) ==
    IF i > Len(blobs) THEN 0
    ELSE Cardinality(TemplatePositions(blobs[i])) + SumTemplates(blobs, i + 1)

C7_CountIsPerCall ==
    (lastOp.op \in {"add_dll", "add_dir"} /\ lastOp.status = "ok") =>
        lastOp.count = Min(SumTemplates(OpBlobs(lastOp, disk), 1), usize_max)

\* a call on a cache that held templates already returned the count of its own blobs
C7_Witness ==
    /\ lastOp.op \in {"add_dll", "add_dir"} /\ lastOp.status = "ok"
    /\ lastOp.count > 0
    /\ Len(resources) > Len(OpBlobs(lastOp, disk))
    /\ SumTemplates(resources, 1) > lastOp.count
    /\ Cardinality(DOMAIN temps_by_guid) # lastOp.count

(***************************************************************************)
(* C8  After a successful ingest, every event of the ingested blobs whose  *)
(* template offset is the offset of a template of its provider has its     *)
(* (provider, event id, version) key mapped, to the GUID of the template   *)
(* at the offset of the last such event with that key (blob order, then    *)
(* provider order, then event order); an event without a template offset,  *)
(* or whose offset matches no template of its provider, adds no mapping:   *)
(* a key that no such event of a retained blob defines is not mapped.      *)
(***************************************************************************)
\* <<blob index, position>> of every event of a list of blobs
EventsOfBlobs(blobs) ==
    UNION {{<<i, pos>> : pos \in EventPositions(blobs[i])} :
              i \in {j \in 1..Len(blobs) : CrimManifest_parse(blobs[j]).parse_ok}}

C8_EventsWithTemplateMapped ==
    (IsIngest(lastOp) /\ lastOp.status = "ok") =>
        LET blobs == OpBlobs(lastOp, disk)
        IN  \A x \in EventsOfBlobs(blobs) :
                LET k == KeyOfEvent(blobs[x[1]], x[2])
                IN  IF TemplatesOfEvent(blobs[x[1]], x[2]) # {}
                    THEN /\ k \in DOMAIN event_to_template_guid
                         /\ event_to_template_guid[k] = LastGuidOf(blobs, k)
                    ELSE BlobsDefining(resources, k) = {}
                            => k \notin DOMAIN event_to_template_guid

\* the claim as stated: every event that carries a template offset is mapped
\* to the GUID of the template at that offset, and an event without a
\* template offset has no mapping
C8_AsStated ==
    (IsIngest(lastOp) /\ lastOp.status = "ok") =>
        LET blobs == OpBlobs(lastOp, disk)
        IN  \A x \in EventsOfBlobs(blobs) :
                LET k == KeyOfEvent(blobs[x[1]], x[2])
                    e == EventAt(blobs[x[1]], x[2])
                IN  IF e.template_offset.some
                    THEN /\ k \in DOMAIN event_to_template_guid
                         /\ \E t \in TemplatesOfEvent(blobs[x[1]], x[2]) :
                               event_to_template_guid[k] = KeyOfGuid(t.guid)
                    ELSE BlobsDefining(resources, k) = {}
                            => k \notin DOMAIN event_to_template_guid

\* a blob was ingested that has an event whose offset matches no template,
\* which is not mapped, and a key defined twice, which has the later GUID
C8_Witness ==
    /\ IsIngest(lastOp) /\ lastOp.status = "ok"
    /\ LET blobs == OpBlobs(lastOp, disk)
       IN  /\ \E x \in EventsOfBlobs(blobs) :
                 /\ EventAt(blobs[x[1]], x[2]).template_offset.some
                 /\ TemplatesOfEvent(blobs[x[1]], x[2]) = {}
                 /\ KeyOfEvent(blobs[x[1]], x[2]) \notin DOMAIN event_to_template_guid
           /\ \E x \in EventsOfBlobs(blobs) :
                 /\ TemplatesOfEvent(blobs[x[1]], x[2]) # {}
                 /\ event_to_template_guid[KeyOfEvent(blobs[x[1]], x[2])]
                       = LastGuidOf(blobs, KeyOfEvent(blobs[x[1]], x[2]))

(***************************************************************************)
(* C9  Bounds safety: no call panics; Template.to_xml of a template whose  *)
(* offset + size exceeds the manifest buffer returns an error; add_dll of  *)
(* a binary with a parsed blob that has a template whose offset + size     *)
(* exceeds the blob returns an error.  offset + size is the exact sum.     *)
(***************************************************************************)
HasTemplateOutOfBounds(data) ==
    /\ CrimManifest_parse(data).parse_ok
    /\ \E pos \in TemplatePositions(data) : ~InBounds(data, TemplateAt(data, pos))

FileOkOf ==
    [path \in KnownPaths |->
        /\ is_file(path) /\ Fs[resolve(path).v].readable /\ Fs[resolve(path).v].pe_ok
        /\ AllWellFormed(FileBlobs(path))]

FileOk(path) == FileOkOf[path]

\* the error of a binary that fails
FileErrorOf ==
    [path \in KnownPaths |->
        IF ~exists(path) THEN "FileNotFoundError"
        ELSE IF ~is_file(path) \/ ~Fs[resolve(path).v].readable THEN "OSError"
        ELSE "RuntimeError"]

FileError(path) == FileErrorOf[path]

C10_StrictIngestion ==
    [][lastOp'.op \in {"add_dll", "add_dir"} =>
        LET files == lastOp'.files
            bad == {i \in 1..Len(files) : ~FileOk(files[i])}
        IN  IF bad = {}
            THEN /\ lastOp'.status = "ok"
                 /\ resources' = resources \o BlobsOfFiles(files, 1)
            ELSE LET j == CHOOSE x \in bad : \A y \in bad : x <= y
                     before == BlobsOfFiles(SubSeq(files, 1, j - 1), 1)
                     fb == FileBlobs(files[j])
                     nb == {i \in 1..Len(fb) : ~WellFormed(fb[i])}
                     b == IF nb = {} THEN 0 ELSE CHOOSE x \in nb : \A y \in nb : x <= y
                 IN  /\ lastOp'.status = FileError(files[j])
                     /\ \/ resources' = resources \o before \o SubSeq(fb, 1, b - 1)
                        \/ resources' = resources \o before \o SubSeq(fb, 1, b)]_vars

\* add_dir stopped at a binary that could not be read: the binaries before
\* it were ingested, the binary behind it was not
C10_Witness ==
    /\ lastOp.op = "add_dir"
    /\ lastOp.status = "OSError"
    /\ Len(lastOp.files) = 3
    /\ FileOk(lastOp.files[1]) /\ ~FileOk(lastOp.files[2]) /\ FileOk(lastOp.files[3])
    /\ resources = FileBlobs(lastOp.files[1])


(***************************************************************************)
(* What a directory tree says, read off the file system without running    *)
(* the traversal.                                                          *)
(***************************************************************************)
\* the allow-list that an extensions argument stands for
AllowList(extensions) ==
    IF ~extensions.some THEN {<<"e", "x", "e">>, <<"d", "l", "l">>, <<"s", "y", "s">>}
    ELSE IF extensions.v = <<"d", "l", "l">> THEN {<<"d", "l", "l">>}
    ELSE {<<"d", "l", "l">>, <<"t", "x", "t">>}

\* the file name of the path ends in a dot, not its first character, followed
\* by text that is in the allow-list when letter case is ignored
HasAllowedExt(path, extensions) ==
    LET name == path[Len(path)]
    IN  \E i \in 2..Len(name) :
            /\ name[i] = "."
            /\ \A j \in (i + 1)..Len(name) : name[j] # "."
            /\ \E a \in AllowList(extensions) :
                   to_ascii_lowercase(SubSeq(name, i + 1, Len(name))) = a

IsPrefix(p, q) == Len(p) <= Len(q) /\ SubSeq(q, 1, Len(p)) = p

\* the paths of the regular files and of the directories of the file system
RegularFiles == {p \in paths_under("root", <<>>) : is_file(p)}
Directories == {p \in paths_under("root", <<>>) : is_dir(p)}

\* the set of the elements of a sequence
Range(seq) == {seq[i] : i \in 1..Len(seq)}

(***************************************************************************)
(* C11  Extension filtering: every file that a successful add_dir ingested *)
(* has an extension that is in the allow-list when letter case is ignored, *)
(* whether the path argument names a directory or a single file.           *)
(***************************************************************************)
C11_ExtensionFilter ==
    (lastOp.op = "add_dir" /\ lastOp.status = "ok") =>
        \A i \in 1..Len(lastOp.files) :
            HasAllowedExt(lastOp.files[i], lastOp.arg.extensions)

(***************************************************************************)
(* C12  Deduplication: a successful add_dir with recursive = true ingests  *)
(* no file twice: no two of the paths it ingested lead to the same file.   *)
(***************************************************************************)
C12_Deduplication ==
    (lastOp.op = "add_dir" /\ lastOp.arg.recursive /\ lastOp.status = "ok") =>
        \A i, j \in 1..Len(lastOp.files) :
            i # j => resolve(lastOp.files[i]).v # resolve(lastOp.files[j]).v

(***************************************************************************)
(* C13  The recursive flag: add_dir on a directory lists that directory    *)
(* only (recursive = false) or that directory and every directory below it *)
(* (recursive = true).  If a listed directory cannot be listed the call    *)
(* fails and changes nothing; otherwise the files it selects are the       *)
(* matching regular files that are direct entries (recursive = false) or   *)
(* are at any depth (recursive = true), and on success their blobs are     *)
(* the blobs appended to resources.                                        *)
(***************************************************************************)
C13_RecursiveFlag ==
    [][(lastOp'.op = "add_dir" /\ lastOp'.arg.path \in Directories) =>
        LET a == lastOp'.arg
            listed == {d \in Directories :
                          IsPrefix(a.path, d) /\ (a.recursive \/ d = a.path)}
            expected == {p \in RegularFiles :
                            /\ IsPrefix(a.path, p)
                            /\ a.recursive \/ Len(p) = Len(a.path) + 1
                            /\ HasAllowedExt(p, a.extensions)}
        IN  IF \E d \in listed : ~Fs[resolve(d).v].listable
            THEN /\ lastOp'.status = "OSError"
                 /\ UNCHANGED cache_vars
            ELSE /\ Range(lastOp'.files) = expected
                 /\ lastOp'.status = "ok" =>
                        resources' = resources \o BlobsOfFiles(lastOp'.files, 1)]_vars

\* add_dir without recursion succeeded on a directory whose subdirectory
\* cannot be listed and holds a matching file, which was not ingested
C13_Witness ==
    /\ lastOp.op = "add_dir" /\ ~lastOp.arg.recursive /\ lastOp.status = "ok"
    /\ lastOp.arg.path = <<n_deny>>
    /\ lastOp.files = <<<<n_deny, n_a_dll>>>>
    /\ HasAllowedExt(<<n_deny, n_priv, n_b_dll>>, lastOp.arg.extensions)
    /\ resources # <<>>

(***************************************************************************)
(* C14  Determinism of add_dir: from the same cache and the same tree, the *)
(* call made with the directory listings in the other order returns the    *)
(* same status and count and leaves the same event map, template map and   *)
(* resources sequence.                                                     *)
(***************************************************************************)
C14_Determinism ==
    [][lastOp'.op = "add_dir" =>
        LET a == lastOp'.arg
            o == add_dir(self, a.path, a.recursive, a.extensions, ~a.rev, usize_max)
        IN  /\ o.status = lastOp'.status
            /\ o.status = "ok" => o.count = lastOp'.count
            /\ o.c.event_to_template_guid = event_to_template_guid'
            /\ o.c.temps_by_guid = temps_by_guid'
            /\ o.c.resources = resources'
            /\ o.c.inner = inner']_vars

\* add_dir ingested two binaries that the listing returned in descending order
C14_Witness ==
    /\ lastOp.op = "add_dir" /\ lastOp.status = "ok"
    /\ lastOp.arg.rev
    /\ Len(lastOp.files) >= 2
    /\ path_lt(lastOp.files[1], lastOp.files[2])
    /\ FileBlobs(lastOp.files[1]) # FileBlobs(lastOp.files[2])
    /\ resources = BlobsOfFiles(lastOp.files, 1)

(***************************************************************************)
(* C15  add_dir on a path that does not exist returns count 0 without an   *)
(* error and leaves both maps and resources as they were.                  *)
(***************************************************************************)
C15_MissingPath ==
    [][(lastOp'.op = "add_dir" /\ ~exists(lastOp'.arg.path)) =>
        /\ lastOp'.status = "ok"
        /\ lastOp'.count = 0
        /\ UNCHANGED cache_vars]_vars

\* add_dir on a missing path returned 0 on a cache that holds blobs
C15_Witness ==
    /\ lastOp.op = "add_dir" /\ ~exists(lastOp.arg.path)
    /\ lastOp.status = "ok" /\ lastOp.count = 0
    /\ resources # <<>>


(***************************************************************************)
(* What a cache file says, read off the disk without running the load.     *)
(***************************************************************************)
\* the payloads of the entries of a file, in file order
Payloads(f) == [i \in 1..Len(f.entries) |-> f.entries[i].payload]

\* the header of the file is valid and every entry is a CRIM entry with a
\* length in range and a blob whose ingest succeeds
FileLoads(f) ==
    /\ f.magic_ok /\ f.version_ok
    /\ \A i \in 1..Len(f.entries) :
           /\ f.entries[i].kind = "Crim"
           /\ f.entries[i].len_ok
           /\ WellFormed(f.entries[i].payload)

(***************************************************************************)
(* C16  dump with overwrite = false on a path that exists fails with the   *)
(* exception of OutputExists (ValueError) and writes nothing: the disk and *)
(* the cache are as they were.                                             *)
(***************************************************************************)
C16_NoOverwrite ==
    [][(/\ lastOp'.op = "dump"
        /\ ~lastOp'.arg.overwrite
        /\ disk[lastOp'.arg.path].some)
       => /\ lastOp'.status = "ValueError"
          /\ UNCHANGED disk
          /\ UNCHANGED cache_vars]_vars

\* dump without overwrite failed on a cache file whose content is not what
\* the cache would have written
C16_Witness ==
    /\ lastOp.op = "dump" /\ ~lastOp.arg.overwrite
    /\ is_wevtcache_path(lastOp.arg.path)
    /\ lastOp.status = "ValueError"
    /\ disk[lastOp.arg.path].some
    /\ disk[lastOp.arg.path].v.entries # write_crim_blobs(resources)

(***************************************************************************)
(* C17  Order through persistence: a successful dump leaves a file whose   *)
(* entries are the retained resources, one CRIM entry each, in the order   *)
(* of resources; a successful load returns a cache whose resources are the *)
(* payloads of the entries in file order; so a load that succeeds on the   *)
(* file just dumped returns the resources sequence of the dumped cache.    *)
(***************************************************************************)
C17_OrderThroughPersistence ==
    [][/\ (lastOp'.op = "dump" /\ lastOp'.status = "ok") =>
              /\ disk'[lastOp'.arg.path].some
              /\ Payloads(disk'[lastOp'.arg.path].v) = resources
              /\ \A i \in 1..Len(resources) :
                     disk'[lastOp'.arg.path].v.entries[i].kind = "Crim"
       /\ (lastOp'.op = "load" /\ lastOp'.status = "ok") =>
              resources' = Payloads(disk[lastOp'.arg.path].v)
       /\ (/\ lastOp.op = "dump" /\ lastOp.status = "ok"
           /\ lastOp'.op = "load" /\ lastOp'.status = "ok"
           /\ lastOp'.arg.path = lastOp.arg.path) =>
              resources' = resources]_vars

\* a load returned two different blobs in the order they were dumped in
C17_Witness ==
    /\ lastOp.op = "load" /\ lastOp.status = "ok"
    /\ lastOp.arg.path = <<n_c_wevtcache>>
    /\ Len(resources) = 2
    /\ resources[1] # resources[2]
    /\ resources = Payloads(disk[lastOp.arg.path].v)

(***************************************************************************)
(* C18  load is all-or-nothing: it succeeds exactly when the path is a     *)
(* .wevtcache file that exists, has a valid magic and version and only     *)
(* CRIM entries with a length in range whose blobs all ingest; then the    *)
(* caller receives the cache of all entries.  Otherwise the call fails     *)
(* and the caller receives no cache: the cache it had is as it was.        *)
(***************************************************************************)
C18_LoadAllOrNothing ==
    [][lastOp'.op = "load" =>
        LET path == lastOp'.arg.path
            good == /\ is_wevtcache_path(path)
                    /\ disk[path].some
                    /\ FileLoads(disk[path].v)
        IN  IF good
            THEN /\ lastOp'.status = "ok"
                 /\ resources' = Payloads(disk[path].v)
                 /\ LET r == add_resources(new, Payloads(disk[path].v), 1, 0, usize_max)
                    IN  /\ event_to_template_guid' = r.c.event_to_template_guid
                        /\ temps_by_guid' = r.c.temps_by_guid
                        /\ inner' = r.c.inner
            ELSE /\ lastOp'.status \in {"ValueError", "IOError", "RuntimeError"}
                 /\ UNCHANGED cache_vars]_vars

\* a load failed on a file whose first entry is a blob that ingests and whose
\* second entry has a length out of range; the blob of the first entry is
\* not in the cache
C18_Witness ==
    /\ lastOp.op = "load" /\ lastOp.status = "ValueError"
    /\ disk[lastOp.arg.path].some
    /\ Len(disk[lastOp.arg.path].v.entries) = 2
    /\ next_entry(disk[lastOp.arg.path].v.entries[1]) = "ok"
    /\ WellFormed(disk[lastOp.arg.path].v.entries[1].payload)
    /\ next_entry(disk[lastOp.arg.path].v.entries[2]) = "EntryLengthTooLarge"
    /\ resources = <<>>

(***************************************************************************)
(* C19  load of a file with a valid magic and an unsupported version fails *)
(* with an exception type other than that of load of a file with a corrupt *)
(* magic.                                                                  *)
(***************************************************************************)
C19_VersionDistinctFromMagic ==
    \A p, q \in {x \in CachePaths : is_wevtcache_path(x) /\ disk[x].some} :
        (/\ ~disk[p].v.magic_ok
         /\ disk[q].v.magic_ok /\ ~disk[q].v.version_ok)
        => load(disk, p, usize_max).status # load(disk, q, usize_max).status

(***************************************************************************)
(* C20  A call on a path that does not exist fails with FileNotFoundError, *)
(* and FileNotFoundError is raised for no other failure: add_dll on a      *)
(* missing binary, load on a missing cache file.                           *)
(***************************************************************************)
C20_NotFoundDistinguished ==
    /\ lastOp.op = "add_dll" =>
           (lastOp.status = "FileNotFoundError") = ~exists(lastOp.arg.path)
    /\ (lastOp.op = "load" /\ is_wevtcache_path(lastOp.arg.path)) =>
           (lastOp.status = "FileNotFoundError") = ~disk[lastOp.arg.path].some
    /\ lastOp.op \in {"add_dir", "dump"} => lastOp.status # "FileNotFoundError"

(***************************************************************************)
(* C21  render_template_xml called with a codec it knows and substitutions *)
(* that convert fails with KeyError when the normalized GUID has no entry  *)
(* in temps_by_guid, and otherwise its outcome is that of the renderer on  *)
(* the bytes stored for that GUID and the converted substitutions.         *)
(***************************************************************************)
C21_RenderTemplateXml ==
    (/\ lastOp.op = "render_template_xml"
     /\ resolve_ansi_codec(lastOp.arg.ansi_codec) = "ok"
     /\ binxml_values_from_py_list(lastOp.arg.substitutions).status = "ok")
    => LET guid == normalize_guid(lastOp.arg.template_guid)
           values == binxml_values_from_py_list(lastOp.arg.substitutions).values
       IN  IF guid \notin DOMAIN temps_by_guid
           THEN lastOp.status = "KeyError" /\ lastOp.xml = NoXml
           ELSE /\ lastOp.status \in {"ok", "RuntimeError"}
                /\ lastOp.status =
                       render_temp_to_xml_with_values(temps_by_guid[guid], values).status
                /\ lastOp.status = "ok" =>
                       /\ lastOp.xml.temp = temps_by_guid[guid]
                       /\ lastOp.xml.values = values

\* a template was rendered with one value, its GUID given in braces and in
\* upper case, while the cache holds another template too
C21_Witness ==
    /\ lastOp.op = "render_template_xml" /\ lastOp.status = "ok"
    /\ lastOp.arg.template_guid = <<"{", "A", "}">>
    /\ Len(lastOp.xml.values) = 1
    /\ Cardinality(DOMAIN temps_by_guid) = 2

(***************************************************************************)
(* The scan of render_record_xml, read off the source without running it.  *)
(***************************************************************************)
\* the exception types of the error kinds
InvalidArgumentTypes == {"ValueError", "TypeError"}
NotFoundTypes == {"KeyError"}

\* the positions of a source in the order of the file: each chunk, then its records
RECURSIVE ScanOrderFrom(_, _)
ScanOrderFrom(chunks, ci) ==
    IF ci > Len(chunks) THEN <<>>
    ELSE <<<<ci, 0>>>> \o [ri \in 1..Len(chunks[ci].records) |-> <<ci, ri>>]
             \o ScanOrderFrom(chunks, ci + 1)

ScanOrder(chunks) == ScanOrderFrom(chunks, 1)

\* the chunk or record at a position fails to read or parse
ItemFails(chunks, pos) ==
    IF pos[2] = 0 THEN ~chunks[pos[1]].read_ok \/ ~chunks[pos[1]].parse_ok
    ELSE ~chunks[pos[1]].records[pos[2]].ok

\* the record at a position has the id
ItemMatches(chunks, pos, id) ==
    /\ pos[2] # 0
    /\ chunks[pos[1]].records[pos[2]].ok
    /\ chunks[pos[1]].records[pos[2]].event_record_id = id

\* the index in the scan order of the first failing item, 0 when there is none
FirstFailure(chunks) ==
    LET order == ScanOrder(chunks)
        hits == {i \in 1..Len(order) : ItemFails(chunks, order[i])}
    IN  IF hits = {} THEN 0 ELSE CHOOSE i \in hits : \A j \in hits : i <= j

\* the index in the scan order of the first record with the id, 0 when there is none
FirstMatch(chunks, id) ==
    LET order == ScanOrder(chunks)
        hits == {i \in 1..Len(order) : ItemMatches(chunks, order[i], id)}
    IN  IF hits = {} THEN 0 ELSE CHOOSE i \in hits : \A j \in hits : i <= j

\* the selector of the last call names no template GUID and lacks a part of the triple
SelectorIncomplete ==
    /\ ~lastOp.arg.sel.template_guid.some
    /\ ~(/\ lastOp.arg.sel.provider_guid.some /\ lastOp.arg.sel.event_id.some
         /\ lastOp.arg.sel.version.some)

\* the selector of the last call is a full triple that the cache does not map
SelectorUnresolvable ==
    /\ ~lastOp.arg.sel.template_guid.some
    /\ ~SelectorIncomplete
    /\ <<normalize_guid(lastOp.arg.sel.provider_guid.v), lastOp.arg.sel.event_id.v,
         lastOp.arg.sel.version.v>> \notin DOMAIN event_to_template_guid

\* the template GUID the selector of the last call stands for
SelectedGuid ==
    IF lastOp.arg.sel.template_guid.some
    THEN normalize_guid(lastOp.arg.sel.template_guid.v)
    ELSE event_to_template_guid[<<normalize_guid(lastOp.arg.sel.provider_guid.v),
                                  lastOp.arg.sel.event_id.v, lastOp.arg.sel.version.v>>]

\* the last call was render_record_xml with a codec it knows
RecordCall ==
    /\ lastOp.op = "render_record_xml"
    /\ resolve_ansi_codec(lastOp.arg.ansi_codec) = "ok"

\* the last call was a render_record_xml that went through the source
Scanned ==
    /\ RecordCall
    /\ ~SelectorIncomplete /\ ~SelectorUnresolvable
    /\ lastOp.arg.source.kind # "other"
    /\ lastOp.arg.source.kind = "path" => lastOp.arg.source.exists
    /\ lastOp.arg.source.header_ok

\* the scan of the last call reaches a record with the id before any failure
ReachesMatch ==
    LET chunks == lastOp.arg.source.chunks
        K == FirstMatch(chunks, lastOp.arg.record_id)
        E == FirstFailure(chunks)
    IN  K > 0 /\ (E = 0 \/ K < E)

\* the first record of the source of the last call that has the id
SelectedRecord ==
    LET chunks == lastOp.arg.source.chunks
        pos == ScanOrder(chunks)[FirstMatch(chunks, lastOp.arg.record_id)]
    IN  chunks[pos[1]].records[pos[2]]

(***************************************************************************)
(* C22  render_record_xml, called with a codec it knows and a source that  *)
(* is a path or can be read, fails with the exception type of              *)
(* InvalidArgument exactly when the selector names no template GUID and    *)
(* lacks a part of the triple; then, and when a full triple is not mapped  *)
(* (KeyError), the source is neither opened nor scanned.                   *)
(***************************************************************************)
C22_SelectorInvalidArgument ==
    (RecordCall /\ lastOp.arg.source.kind # "other")
    => /\ (lastOp.status \in InvalidArgumentTypes) = SelectorIncomplete
       /\ SelectorIncomplete => ~lastOp.opened /\ lastOp.examined = <<>>
       /\ SelectorUnresolvable =>
              /\ lastOp.status \in NotFoundTypes
              /\ ~lastOp.opened /\ lastOp.examined = <<>>

(***************************************************************************)
(* C23  render_record_xml goes through the source in the order of the      *)
(* file, chunk by chunk and record by record; when it reaches a record     *)
(* with the id, it has examined exactly the items up to that record, in    *)
(* order, and the outcome (XML or error) is the one that record gives:     *)
(* later records with the same id are not examined and change nothing.     *)
(***************************************************************************)
C23_FirstMatchDecides ==
    (Scanned /\ ReachesMatch)
    => LET chunks == lastOp.arg.source.chunks
           K == FirstMatch(chunks, lastOp.arg.record_id)
           idx == lastOp.arg.template_instance_index
       IN  /\ lastOp.examined = SubSeq(ScanOrder(chunks), 1, K)
           /\ IF ~SelectedRecord.instances_ok
              THEN lastOp.status = "RuntimeError" /\ lastOp.xml = NoXml
              ELSE IF idx + 1 > Len(SelectedRecord.instances)
              THEN lastOp.status # "ok" /\ lastOp.xml = NoXml
              ELSE IF SelectedGuid \notin DOMAIN temps_by_guid
              THEN lastOp.status = "KeyError" /\ lastOp.xml = NoXml
              ELSE /\ lastOp.status =
                          render_temp_to_xml_with_values(
                              temps_by_guid[SelectedGuid],
                              SelectedRecord.instances[idx + 1]).status
                   /\ lastOp.status = "ok" =>
                          lastOp.xml.values = SelectedRecord.instances[idx + 1]

\* the call failed on the first record with the id, which has no instance at
\* the index, while a later record with the same id has one and the template
\* is in the cache
C23_Witness ==
    /\ Scanned /\ ReachesMatch
    /\ lastOp.status # "ok"
    /\ SelectedGuid \in DOMAIN temps_by_guid
    /\ lastOp.arg.template_instance_index + 1 > Len(SelectedRecord.instances)
    /\ LET chunks == lastOp.arg.source.chunks
           order == ScanOrder(chunks)
       IN  \E i \in 1..Len(order) :
              /\ i > FirstMatch(chunks, lastOp.arg.record_id)
              /\ ItemMatches(chunks, order[i], lastOp.arg.record_id)
              /\ lastOp.arg.template_instance_index + 1
                     <= Len(chunks[order[i][1]].records[order[i][2]].instances)

(***************************************************************************)
(* C25  When render_record_xml succeeds, the XML is the renderer's for the *)
(* bytes stored for the template the selector stands for (the GUID given,  *)
(* else the GUID the triple is mapped to) and the values of the instance   *)
(* at template_instance_index of the first record with the id.             *)
(***************************************************************************)
C25_RenderedFromSelected ==
    (lastOp.op = "render_record_xml" /\ lastOp.status = "ok")
    => /\ Scanned /\ ReachesMatch
       /\ SelectedGuid \in DOMAIN temps_by_guid
       /\ lastOp.arg.template_instance_index + 1 <= Len(SelectedRecord.instances)
       /\ lastOp.xml.temp = temps_by_guid[SelectedGuid]
       /\ lastOp.xml.values =
              SelectedRecord.instances[lastOp.arg.template_instance_index + 1]

\* a record with two instances was rendered at index 1 through a triple, while
\* the cache holds two templates
C25_Witness ==
    /\ lastOp.op = "render_record_xml" /\ lastOp.status = "ok"
    /\ ~lastOp.arg.sel.template_guid.some
    /\ lastOp.arg.template_instance_index = 1
    /\ Len(SelectedRecord.instances) = 2
    /\ Cardinality(DOMAIN temps_by_guid) = 2

(***************************************************************************)
(* C24  render_record_xml raises the exception type of NotFound, the type  *)
(* it raises for an absent template GUID or resolve key (KeyError) and not *)
(* a type of InvalidArgument, when the source was gone through without     *)
(* failure and holds no record with the id, and when the selected record   *)
(* has no template instance at template_instance_index.                    *)
(***************************************************************************)
C24_NotFoundKinds ==
    /\ (/\ Scanned
        /\ FirstMatch(lastOp.arg.source.chunks, lastOp.arg.record_id) = 0
        /\ FirstFailure(lastOp.arg.source.chunks) = 0)
       => lastOp.status \in NotFoundTypes /\ lastOp.status \notin InvalidArgumentTypes
    /\ (/\ Scanned /\ ReachesMatch
        /\ SelectedRecord.instances_ok
        /\ lastOp.arg.template_instance_index + 1 > Len(SelectedRecord.instances))
       => lastOp.status \in NotFoundTypes /\ lastOp.status \notin InvalidArgumentTypes

(***************************************************************************)
(* C26  The scan of render_record_xml ends in exactly one of three ways:   *)
(* at the first record with the id, having examined the items up to it;    *)
(* at the first chunk or record that fails to read or parse, with that     *)
(* error, also when a record with the id comes later; or at the end of the *)
(* source, every item examined, with the exception type of NotFound.       *)
(***************************************************************************)
C26_ScanEnds ==
    Scanned
    => LET chunks == lastOp.arg.source.chunks
           order == ScanOrder(chunks)
           K == FirstMatch(chunks, lastOp.arg.record_id)
           E == FirstFailure(chunks)
       IN  IF K > 0 /\ (E = 0 \/ K < E)
           THEN lastOp.examined = SubSeq(order, 1, K)
           ELSE IF E > 0
           THEN /\ lastOp.examined = SubSeq(order, 1, E)
                /\ lastOp.status = "RuntimeError" /\ lastOp.xml = NoXml
           ELSE /\ lastOp.examined = order
                /\ lastOp.status \in NotFoundTypes /\ lastOp.xml = NoXml

(***************************************************************************)
(* C27  resolve_template_guid, render_template_xml, render_record_xml and  *)
(* dump, whether they succeed or fail, leave event_to_template_guid,       *)
(* temps_by_guid and resources as they were.                               *)
(***************************************************************************)
ReadOps == {"resolve_template_guid", "render_template_xml", "render_record_xml", "dump"}

C27_ReadsLeaveCache ==
    [][lastOp'.op \in ReadOps
           => UNCHANGED <<event_to_template_guid, temps_by_guid, resources>>]_vars

\* a dump succeeded on a cache that holds two resources
C27_Witness ==
    /\ lastOp.op = "dump" /\ lastOp.status = "ok"
    /\ Len(resources) = 2 /\ temps_by_guid # EmptyMap

(***************************************************************************)
(* C28  Once a parser was constructed with the cache instance as its       *)
(* wevt_cache, add_dll and add_dir on that instance do not change the      *)
(* templates the parser observes: neither their set nor their bytes.       *)
(***************************************************************************)
\* the templates the parser observes: GUID -> bytes
ParserTemplates == IF parser.v.shared THEN inner ELSE parser.v.own

C28_ParserCacheImmutable ==
    [][(/\ parser.some /\ parser.v.has_cache /\ parser.v.shared
        /\ parser' = parser
        /\ lastOp'.op \in {"add_dll", "add_dir"})
       => ParserTemplates' = ParserTemplates]_vars

(***************************************************************************)
(* C29  Provider.get_template_by_offset(o) never fails; for every u32      *)
(* offset o it returns a template of the same provider whose offset is o   *)
(* when the provider has one, and None exactly when the provider has none. *)
(***************************************************************************)
C29_GetTemplateByOffset ==
    lastOp.op = "Provider.get_template_by_offset"
    => LET pi == lastOp.arg.provider_index
           templates == manifest.v.providers[pi].templates
           at == {ti \in 1..Len(templates) : templates[ti].offset = lastOp.arg.offset}
       IN  /\ lastOp.status = "ok"
           /\ (lastOp.result = None) = (at = {})
           /\ at # {} =>
                  /\ lastOp.result.v.provider_index = pi
                  /\ lastOp.result.v.template_index \in at

\* a template was found at an offset that two templates of the provider have,
\* and which is no position of the template list
C29_Witness ==
    /\ lastOp.op = "Provider.get_template_by_offset"
    /\ lastOp.result.some
    /\ Cardinality({ti \in 1..Len(manifest.v.providers[lastOp.arg.provider_index].templates) :
                       manifest.v.providers[lastOp.arg.provider_index].templates[ti].offset
                           = lastOp.arg.offset}) = 2

(***************************************************************************)
(* C30  The conversion of the substitution values keeps their number and   *)
(* their order, and each value becomes what the first matching rule says:  *)
(* None is null, a bool is a bool (never an integer), an int is a signed   *)
(* 64-bit integer if it fits, else an unsigned one if it fits, else a      *)
(* float if a float holds it, a float is a float, a str is a text, a bytes *)
(* is raw bytes, and anything else is the text str() gives.  The           *)
(* conversion fails exactly when str() raises for an element that no       *)
(* earlier rule matches.                                                   *)
(***************************************************************************)
\* the tagged value a Python object stands for, by its type
ExpectedValue(item) ==
    CASE item.ty = "NoneType" -> NullType
      [] item.ty = "bool" -> BoolType(item.b)
      [] item.ty = "int" /\ I64Min <= item.n /\ item.n <= I64Max -> Int64Type(item.n)
      [] item.ty = "int" /\ I64Max < item.n /\ item.n <= U64Max -> UInt64Type(item.n)
      [] item.ty = "int" /\ (item.n < I64Min \/ item.n > U64Max)
             /\ 0 - F64Max <= item.n /\ item.n <= F64Max -> Real64Type(item.n)
      [] item.ty = "float" -> Real64Type(item.n)
      [] item.ty = "str" -> AnsiStringType(item.s)
      [] item.ty = "bytes" -> BinaryType(item.s)
      [] OTHER -> AnsiStringType(item.str)

\* no rule but the stringify fallback matches the object
OnlyFallback(item) ==
    \/ item.ty = "object"
    \/ item.ty = "int" /\ (item.n < 0 - F64Max \/ item.n > F64Max)

\* a list of values was converted
ValuesCall ==
    /\ lastOp.op = "binxml_values_from_py_list"
    /\ lastOp.arg.substitutions.is_seq

\* str() raises for an element of the list that only the fallback matches
SomeStrRaises ==
    \E i \in 1..Len(lastOp.arg.substitutions.items) :
        /\ OnlyFallback(lastOp.arg.substitutions.items[i])
        /\ ~lastOp.arg.substitutions.items[i].str_ok

C30_ValueConversion ==
    ValuesCall
    => LET items == lastOp.arg.substitutions.items
       IN  /\ (lastOp.status = "Exception") = SomeStrRaises
           /\ lastOp.status = "ok" =>
                  /\ Len(lastOp.values) = Len(items)
                  /\ \A i \in 1..Len(items) :
                         lastOp.values[i] = ExpectedValue(items[i])

\* the claim as it is stated: no element makes the conversion fail
C30_AsStated ==
    ValuesCall
    => LET items == lastOp.arg.substitutions.items
       IN  /\ lastOp.status = "ok"
           /\ Len(lastOp.values) = Len(items)
           /\ \A i \in 1..Len(items) : lastOp.values[i] = ExpectedValue(items[i])

\* True and then an int beyond i64 were converted
C30_Witness ==
    /\ ValuesCall /\ lastOp.status = "ok"
    /\ Len(lastOp.arg.substitutions.items) = 2
    /\ lastOp.arg.substitutions.items[1].ty = "bool"
    /\ lastOp.arg.substitutions.items[1].b
    /\ lastOp.arg.substitutions.items[2].ty = "int"
    /\ lastOp.arg.substitutions.items[2].n > I64Max
    /\ lastOp.values[2].tag = "UInt64Type"

(***************************************************************************)
(* The records iterator (parser.rs, records.rs).                           *)
(***************************************************************************)
\* records_iterator that leaves the parser's inner where it is
records_iterator_keeping(p, output_format) ==
    IF ~p.inner.some THEN [status |-> "RuntimeError", parser |-> p, iterator |-> None]
    ELSE [status |-> "ok", parser |-> p,
          iterator |-> Some([inner |-> [chunks |-> p.inner.v, pos |-> 1],
                             records_iter |-> <<>>, output_format |-> output_format])]

\* PyEvtxParser::records_iterator: takes the parser's inner and returns the
\* iterator over its chunks, positioned before the first chunk and holding no
\* records yet
records_iterator(p, output_format) ==
    IF ~p.inner.some THEN [status |-> "RuntimeError", parser |-> p, iterator |-> None]
    ELSE [status |-> "ok", parser |-> [p EXCEPT !.inner = None],
          iterator |-> Some([inner |-> [chunks |-> p.inner.v, pos |-> 1],
                             records_iter |-> <<>>, output_format |-> output_format])]

\* the records of a parsed chunk as next() collects them: those that
\* deserialize, each turned into the output format (which can fail)
collect_records(chunk, chunk_index, output_format) ==
    LET idx == SelectSeq([i \in 1..Len(chunk.records) |-> i],
                         LAMBDA i : chunk.records[i].ok)
    IN  [k \in 1..Len(idx) |->
            [ok |-> chunk.records[idx[k]].serializes, chunk |-> chunk_index,
             record |-> idx[k],
             event_record_id |-> chunk.records[idx[k]].event_record_id,
             output_format |-> output_format]]

\* next() that ends the iteration at a chunk that fails
RECURSIVE next_stopping_at_error(_)
next_stopping_at_error(it) ==
    IF it.records_iter # <<>>
    THEN [iterator |-> [it EXCEPT !.records_iter = Tail(@)],
          status |-> IF Head(it.records_iter).ok THEN "ok" ELSE "Exception",
          err |-> IF Head(it.records_iter).ok THEN "" ELSE "record",
          item |-> IF Head(it.records_iter).ok THEN Some(Head(it.records_iter)) ELSE None]
    ELSE IF it.inner.pos > Len(it.inner.chunks)
    THEN [iterator |-> it, status |-> "StopIteration", err |-> "", item |-> None]
    ELSE IF ~it.inner.chunks[it.inner.pos].read_ok
    THEN [iterator |-> [it EXCEPT !.inner.pos = Len(it.inner.chunks) + 1],
          status |-> "Exception", err |-> "chunk_read", item |-> None]
    ELSE IF ~it.inner.chunks[it.inner.pos].parse_ok
    THEN [iterator |-> [it EXCEPT !.inner.pos = Len(it.inner.chunks) + 1],
          status |-> "Exception", err |-> "chunk_parse", item |-> None]
    ELSE next_stopping_at_error(
             [it EXCEPT !.inner.pos = @ + 1,
                        !.records_iter = collect_records(it.inner.chunks[it.inner.pos],
                                                         it.inner.pos,
                                                         it.output_format)])

\* next() that keeps the records that fail to deserialize and raises on them
RECURSIVE next_raising_on_record(_)
next_raising_on_record(it) ==
    IF it.records_iter # <<>>
    THEN [iterator |-> [it EXCEPT !.records_iter = Tail(@)],
          status |-> IF Head(it.records_iter).ok THEN "ok" ELSE "Exception",
          err |-> IF Head(it.records_iter).ok THEN "" ELSE "record",
          item |-> IF Head(it.records_iter).ok THEN Some(Head(it.records_iter)) ELSE None]
    ELSE IF it.inner.pos > Len(it.inner.chunks)
    THEN [iterator |-> it, status |-> "StopIteration", err |-> "", item |-> None]
    ELSE IF ~it.inner.chunks[it.inner.pos].read_ok
    THEN [iterator |-> [it EXCEPT !.inner.pos = @ + 1],
          status |-> "Exception", err |-> "chunk_read", item |-> None]
    ELSE IF ~it.inner.chunks[it.inner.pos].parse_ok
    THEN [iterator |-> [it EXCEPT !.inner.pos = @ + 1],
          status |-> "Exception", err |-> "chunk_parse", item |-> None]
    ELSE next_raising_on_record(
             [it EXCEPT !.inner.pos = @ + 1,
                        !.records_iter =
                            [i \in 1..Len(it.inner.chunks[it.inner.pos].records) |->
                                [ok |-> it.inner.chunks[it.inner.pos].records[i].ok
                                        /\ it.inner.chunks[it.inner.pos].records[i].serializes,
                                 chunk |-> it.inner.pos, record |-> i,
                                 event_record_id |->
                                     it.inner.chunks[it.inner.pos].records[i].event_record_id,
                                 output_format |-> it.output_format]]])

\* PyRecordsIterator::next: the next record that is left of the current chunk
\* (raising if it could not be turned into the output format); otherwise the
\* next chunk is taken from the chunk iterator, which moves past it whether
\* or not it could be read: a chunk that fails to read or to parse raises,
\* one that parses replaces the records and the loop goes on; no chunk left
\* ends the iteration
RECURSIVE PyRecordsIterator_next(_)
PyRecordsIterator_next(it) ==
    IF it.records_iter # <<>>
    THEN [iterator |-> [it EXCEPT !.records_iter = Tail(@)],
          status |-> IF Head(it.records_iter).ok THEN "ok" ELSE "Exception",
          err |-> IF Head(it.records_iter).ok THEN "" ELSE "record",
          item |-> IF Head(it.records_iter).ok THEN Some(Head(it.records_iter)) ELSE None]
    ELSE IF it.inner.pos > Len(it.inner.chunks)
    THEN [iterator |-> it, status |-> "StopIteration", err |-> "", item |-> None]
    ELSE IF ~it.inner.chunks[it.inner.pos].read_ok
    THEN [iterator |-> [it EXCEPT !.inner.pos = @ + 1],
          status |-> "Exception", err |-> "chunk_read", item |-> None]
    ELSE IF ~it.inner.chunks[it.inner.pos].parse_ok
    THEN [iterator |-> [it EXCEPT !.inner.pos = @ + 1],
          status |-> "Exception", err |-> "chunk_parse", item |-> None]
    ELSE PyRecordsIterator_next(
             [it EXCEPT !.inner.pos = @ + 1,
                        !.records_iter = collect_records(it.inner.chunks[it.inner.pos],
                                                         it.inner.pos,
                                                         it.output_format)])

\* the sources given to the parsers that are iterated
IterSources ==
    LET V(t) == <<AnsiStringType(t)>>
        R(id) == EvtxRecord(TRUE, id, TRUE, <<V("a")>>, TRUE)
        Bad == EvtxRecord(FALSE, 0, FALSE, <<>>, FALSE)
        Good(records) == EvtxChunk(TRUE, TRUE, records)
    IN  {\* no chunk
         [name |-> "empty"] @@ EvtxSource("path", TRUE, TRUE, <<>>),
         \* a record that does not deserialize between two that do, then a
         \* chunk that cannot be read, then a chunk with one record
         [name |-> "bad_read"] @@
             EvtxSource("path", TRUE, TRUE,
                        <<Good(<<R(1), Bad, R(2)>>), EvtxChunk(FALSE, FALSE, <<>>),
                          Good(<<R(3)>>)>>),
         \* a chunk that does not parse, then an empty chunk, then a chunk
         \* whose last record does not deserialize
         [name |-> "bad_parse"] @@
             EvtxSource("file_like", TRUE, TRUE,
                        <<EvtxChunk(TRUE, FALSE, <<R(9)>>), Good(<<>>),
                          Good(<<R(1), Bad>>)>>),
         \* a record that deserializes but cannot be turned into the output
         \* format, between two that can
         [name |-> "bad_output"] @@
             EvtxSource("path", TRUE, TRUE,
                        <<Good(<<R(1), EvtxRecord(TRUE, 2, TRUE, <<V("a")>>, FALSE),
                                 R(3)>>),
                          Good(<<R(4)>>)>>)}

\* records(), records_json() and __iter__ of the parser: __iter__ is records()
RecordsIterator(method) ==
    /\ parser.some
    /\ LET returns(r) ==
               /\ parser' = Some([r.parser EXCEPT !.used = @ \/ r.status = "ok"])
               /\ iterator' = IF r.status = "ok"
                              THEN Some(r.iterator.v @@ [yielded |-> <<>>, raised |-> <<>>,
                                                         calls |-> 0, ended |-> FALSE])
                              ELSE iterator
               /\ lastOp' = Op(method, [method |-> method], r.status, 0, <<>>, NoText,
                               NoXml)
       IN  returns(records_iterator(parser.v, IF method = "records_json" THEN "JSON"
                                                                         ELSE "XML"))
    /\ UNCHANGED <<cache_vars, disk, manifest, usize_max>>

\* __next__ of the iterator; yielded, raised, calls and ended are the history
\* of the iteration: the records yielded, the errors raised with the position
\* of the chunk iterator after them, the calls made before the end was
\* signalled, and whether it was signalled
IteratorNext ==
    /\ iterator.some
    /\ LET returns(r) ==
               /\ iterator' =
                      Some([r.iterator EXCEPT
                               !.yielded = IF r.status = "ok" THEN Append(@, r.item.v)
                                           ELSE @,
                               !.raised = IF r.status = "Exception"
                                          THEN Append(@, [err |-> r.err,
                                                          pos |-> r.iterator.inner.pos])
                                          ELSE @,
                               !.calls = IF iterator.v.ended THEN @ ELSE @ + 1,
                               !.ended = @ \/ r.status = "StopIteration"])
               /\ lastOp' = Op("__next__", [method |-> "__next__"], r.status, 0, <<>>,
                               NoText, NoXml)
       IN  returns(PyRecordsIterator_next(iterator.v))
    /\ UNCHANGED <<cache_vars, disk, manifest, usize_max, parser>>

\* parsers that are constructed and iterated
NextIter ==
    \/ \E source \in IterSources, codec \in {None, Some("bogus")} :
          NewParser(source, codec, None)
    \/ \E method \in {"records", "records_json", "__iter__"} : RecordsIterator(method)
    \/ IteratorNext

SpecIter == Init /\ [][NextIter]_vars

(***************************************************************************)
(* Claims about the records iterator.                                      *)
(***************************************************************************)
RecordsMethods == {"records", "records_json", "__iter__"}

\* C31: a parser can be used once: a call of records(), records_json() or
\* __iter__ on a parser on which none of the three has succeeded yet succeeds
\* and returns an iterator; on a parser on which one has succeeded, a call of
\* any of the three raises RuntimeError, returns no iterator and leaves the
\* parser and the iterator returned before as they are
C31_UsedOnce ==
    [][(lastOp'.op \in RecordsMethods /\ parser.some)
          => IF parser.v.used
             THEN /\ lastOp'.status = "RuntimeError"
                  /\ iterator' = iterator
                  /\ parser' = parser
             ELSE /\ lastOp'.status = "ok"
                  /\ iterator'.some
                  /\ iterator'.v.calls = 0
                  /\ parser'.v.used]_vars

\* records_json() has failed on a parser whose records were requested as XML
\* before, and that iterator has yielded a record since
C31_Witness ==
    /\ lastOp.op = "records_json"
    /\ lastOp.status = "RuntimeError"
    /\ parser.some /\ parser.v.used
    /\ iterator.some /\ iterator.v.output_format = "XML"
    /\ iterator.v.yielded # <<>>

\* the chunks of an iterator that fail to read or to parse
FailedChunks(it) ==
    {ci \in 1..Len(it.inner.chunks) :
        ~it.inner.chunks[ci].read_ok \/ ~it.inner.chunks[ci].parse_ok}

\* the records of the chunks that parse, as <<chunk, record>>: those that
\* deserialize, and of these those that can be turned into the output format
DeserializedRecords(it) ==
    {<<ci, ri>> \in (1..Len(it.inner.chunks)) \X (1..3) :
        /\ ci \notin FailedChunks(it)
        /\ ri \in 1..Len(it.inner.chunks[ci].records)
        /\ it.inner.chunks[ci].records[ri].ok}

SerializedRecords(it) ==
    {x \in DeserializedRecords(it) : it.inner.chunks[x[1]].records[x[2]].serializes}

\* the records yielded so far as <<chunk, record>>
YieldedAt(it) == [k \in 1..Len(it.yielded) |-> <<it.yielded[k].chunk, it.yielded[k].record>>]

\* C32: a call of next() that raises because a chunk failed to read or to
\* parse leaves an iterator that has moved past exactly that chunk and keeps
\* the records yielded so far; no chunk raises twice; and once the end is
\* signalled, every record of a later chunk that parses (one that
\* deserializes and can be output) has been yielded
C32_ContinuesAfterChunkError ==
    /\ [][(lastOp'.op = "__next__" /\ lastOp'.status = "Exception"
            /\ Len(iterator'.v.raised) > Len(iterator.v.raised)
            /\ iterator'.v.raised[Len(iterator'.v.raised)].err \in {"chunk_read", "chunk_parse"})
           => /\ iterator'.some
              /\ iterator.v.inner.pos \in FailedChunks(iterator.v)
              /\ iterator'.v.inner.pos = iterator.v.inner.pos + 1
              /\ iterator'.v.inner.chunks = iterator.v.inner.chunks
              /\ iterator'.v.yielded = iterator.v.yielded
              /\ ~iterator'.v.ended]_vars
    /\ [](iterator.some
           => /\ \A i, j \in 1..Len(iterator.v.raised) :
                    (/\ i # j
                     /\ iterator.v.raised[i].err \in {"chunk_read", "chunk_parse"}
                     /\ iterator.v.raised[j].err \in {"chunk_read", "chunk_parse"})
                        => iterator.v.raised[i].pos # iterator.v.raised[j].pos
              /\ iterator.v.ended
                    => \A x \in SerializedRecords(iterator.v) :
                          (\E ci \in FailedChunks(iterator.v) : ci < x[1])
                              => \E k \in 1..Len(iterator.v.yielded) :
                                    YieldedAt(iterator.v)[k] = x)

\* a chunk has failed to read, and the record of the chunk after it was
\* yielded by the call that followed
C32_Witness ==
    /\ iterator.some
    /\ lastOp.op = "__next__" /\ lastOp.status = "ok"
    /\ \E i \in 1..Len(iterator.v.raised) :
          /\ iterator.v.raised[i].err = "chunk_read"
          /\ iterator.v.yielded # <<>>
          /\ iterator.v.yielded[Len(iterator.v.yielded)].chunk = iterator.v.raised[i].pos

\* the records that deserialize but cannot be turned into the output format
UnserializedRecords(it) == DeserializedRecords(it) \ SerializedRecords(it)

\* the history of an iterator is that of an iteration that yields the records
\* of the set wanted: each exactly once, in chunk order and record order, with
\* its id and in the format asked for
YieldsExactly(it, wanted) ==
    /\ Len(it.yielded) = Cardinality(wanted)
    /\ \A x \in wanted : \E k \in 1..Len(it.yielded) : YieldedAt(it)[k] = x
    /\ \A k \in 1..Len(it.yielded) :
          /\ it.yielded[k].event_record_id
                 = it.inner.chunks[it.yielded[k].chunk].records[it.yielded[k].record].event_record_id
          /\ it.yielded[k].output_format = it.output_format
    /\ \A k, l \in 1..Len(it.yielded) :
          k < l => Before(YieldedAt(it)[k], YieldedAt(it)[l])

\* the number of calls of next() an iteration needs at most: one for each
\* record, one for each chunk, one for the end
MaxCalls(it) ==
    Cardinality(DeserializedRecords(it)) + Len(it.inner.chunks) + 1

\* C33: at the end of an iteration the records yielded are those of the
\* chunks that parse that deserialize and can be turned into the output
\* format, each exactly once, in chunk order and record order; a record that
\* does not deserialize is skipped without raising, one that deserializes but
\* cannot be output makes next() raise once; the end is signalled only after
\* the last chunk, and within a number of calls bounded by the size of the
\* source
C33_YieldsEveryRecordOnce ==
    iterator.some
        => /\ iterator.v.calls <= MaxCalls(iterator.v)
           /\ (lastOp.op = "__next__" /\ lastOp.status = "StopIteration")
                  => iterator.v.ended
           /\ \A k, l \in 1..Len(iterator.v.yielded) :
                 k < l => Before(YieldedAt(iterator.v)[k], YieldedAt(iterator.v)[l])
           /\ iterator.v.ended
                 => /\ iterator.v.inner.pos = Len(iterator.v.inner.chunks) + 1
                    /\ iterator.v.records_iter = <<>>
                    /\ YieldsExactly(iterator.v, SerializedRecords(iterator.v))
                    /\ Cardinality({i \in 1..Len(iterator.v.raised) :
                                       iterator.v.raised[i].err = "record"})
                           = Cardinality(UnserializedRecords(iterator.v))

\* C33 as stated: at the end of an iteration every record that deserialized
\* has been yielded, and no call has raised for a single record
C33_AsStated ==
    (iterator.some /\ iterator.v.ended)
        => /\ YieldsExactly(iterator.v, DeserializedRecords(iterator.v))
           /\ \A i \in 1..Len(iterator.v.raised) : iterator.v.raised[i].err # "record"

\* the end was signalled on a source with a record that does not deserialize
\* between two that do, after records of two chunks were yielded
C33_Witness ==
    /\ iterator.some /\ iterator.v.ended
    /\ lastOp.op = "__next__" /\ lastOp.status = "StopIteration"
    /\ \E ci \in 1..Len(iterator.v.inner.chunks) :
          /\ ci \notin FailedChunks(iterator.v)
          /\ \E ri \in 1..Len(iterator.v.inner.chunks[ci].records) :
                ~iterator.v.inner.chunks[ci].records[ri].ok
    /\ Len(iterator.v.yielded) >= 3
    /\ iterator.v.yielded[1].chunk # iterator.v.yielded[Len(iterator.v.yielded)].chunk

(***************************************************************************)
(* Claims about the integrity of the cache.                                *)
(***************************************************************************)
\* C34: in every reachable cache state, every template GUID that
\* resolve_template_guid can return (every value of the event map) has an
\* entry in the template-bytes map
C34_ReferentialIntegrity ==
    \A k \in DOMAIN event_to_template_guid :
        /\ resolve_template_guid([event_to_template_guid |-> event_to_template_guid],
                                 k[1], k[2], k[3]).status = "ok"
        /\ resolve_template_guid([event_to_template_guid |-> event_to_template_guid],
                                 k[1], k[2], k[3]).guid \in DOMAIN temps_by_guid

\* C35: in every reachable cache state, an ingest of one raw blob that fails
\* (the manifest parser rejects it, or a template range exceeds it) leaves
\* the event map, the template-bytes map and the resources list as they were
\* before that ingest began
C35_FailedIngestLeavesState ==
    \A data \in BlobData :
        LET unchanged(r) ==
                r.status # "ok"
                    => /\ r.c.event_to_template_guid = event_to_template_guid
                       /\ r.c.temps_by_guid = temps_by_guid
                       /\ r.c.resources = resources
        IN  unchanged(add_crim_blob(Cache(event_to_template_guid, temps_by_guid,
                                          resources, inner),
                                    data, usize_max))

\* C36: for a blob that was parsed as a manifest and each of its templates,
\* the ingest of that template from the same blob fails the bounds check
\* exactly when Template.to_xml on the parsed manifest does (templates whose
\* bytes the renderer rejects are left aside: their to_xml fails for that
\* reason)
C36_BoundsAgree ==
    (lastOp.op = "Manifest.parse" /\ lastOp.status = "ok")
        => \A pi \in 1..Len(manifest.v.providers) :
              \A ti \in 1..Len(manifest.v.providers[pi].templates) :
                 LET agree(ingest, xml) ==
                         (ingest.status = "ok"
                             => render_temp_to_xml(
                                    ingest.c.temps_by_guid[
                                        KeyOfGuid(manifest.v.providers[pi].templates[ti].guid)]
                                    ).status = "ok")
                             => ((ingest.status = "RuntimeError")
                                    <=> (xml.status = "RuntimeError"))
                 IN  agree(insert_templates(new, lastOp.arg.crim_blob,
                                            <<manifest.v.providers[pi].templates[ti]>>,
                                            1, 0, usize_max),
                           to_xml(manifest.v, pi, ti, None, usize_max))

(***************************************************************************)
(* Claims about the traversal and the path checks.                         *)
(***************************************************************************)
\* the traversal of directories with a link that leads back to an ancestor,
\* with two names of one file, with subdirectories
NextWalk ==
    \/ \E path \in {<<n_cyc>>, <<n_cyc, n_sub>>, <<n_dup>>, <<n_good>>},
          recursive \in BOOLEAN, extensions \in ExtensionArgs, rev \in BOOLEAN :
          AddDir(path, recursive, extensions, rev)

SpecWalk == Init /\ [][NextWalk]_vars

\* C37: the traversal of add_dir ends and reads each directory at most once:
\* no two of the paths it has listed lead to the same directory, so it lists
\* no more paths than the file system has directories
C37_ListsEachDirectoryOnce ==
    lastOp.op = "add_dir"
        => LET once(r) ==
                   /\ \A i, j \in 1..Len(r.listed) :
                         i # j => resolve(r.listed[i]).v # resolve(r.listed[j]).v
                   /\ Len(r.listed) <= Cardinality({n \in DOMAIN Fs : Fs[n].kind = "dir"})
           IN  once(collect_input_paths(lastOp.arg.path, lastOp.arg.recursive,
                                        allowed_exts_of(lastOp.arg.extensions),
                                        lastOp.arg.rev))

\* the extension of the last name of the path, the text after its last dot,
\* is exactly wevtcache
ExactlyWevtcache(path) ==
    LET name == path[Len(path)]
    IN  \E i \in 2..Len(name) :
            /\ name[i] = "."
            /\ \A j \in (i + 1)..Len(name) : name[j] # "."
            /\ SubSeq(name, i + 1, Len(name))
                   = <<"w", "e", "v", "t", "c", "a", "c", "h", "e">>

\* C38: load and dump on a path whose extension is not exactly wevtcache
\* raise ValueError and leave the files and the cache as they are, whether
\* or not the file exists and whatever the overwrite flag; the error of dump
\* is that of the extension check, not that of a target that exists
C38_ExtensionCheckedFirst ==
    [][(lastOp'.op \in {"load", "dump"} /\ ~ExactlyWevtcache(lastOp'.arg.path))
          => /\ lastOp'.status = "ValueError"
             /\ disk' = disk
             /\ UNCHANGED cache_vars
             /\ lastOp'.op = "dump" => lastOp'.err = "ExpectedWevtcache"]_vars

\* dump without overwrite was refused for its extension on a file that
\* exists, from a cache that holds resources
C38_Witness ==
    /\ lastOp.op = "dump" /\ lastOp.status = "ValueError"
    /\ ~lastOp.arg.overwrite
    /\ ~ExactlyWevtcache(lastOp.arg.path)
    /\ disk[lastOp.arg.path].some
    /\ lastOp.err = "ExpectedWevtcache"
    /\ resources # <<>>

=============================================================================
